---------------------------- MODULE Spec2Model ----------------------------
(***************************************************************************)
(* A model of the grant documentation crawler: the categorizer, the merge  *)
(* of per-source records into one unified record, the summary renderer,    *)
(* the PDF download/extract path of concurrent pipelines, and the retry    *)
(* wrappers around the network calls.                                      *)
(*                                                                         *)
(* Strings are sequences of one-character strings, so that len(), lower(), *)
(* substring tests and equality are computed as Python computes them.      *)
(* The two non-ASCII characters that occur are written "e_grave" and "EUR".*)
(***************************************************************************)
EXTENDS Integers, Sequences, FiniteSets, TLC

VARIABLES
  pc,                     \* position of process_grant: collect / merged / done
  web_data,               \* main.py: web_data, the web records collected so far
  pdf_data,               \* main.py: pdf_data, the PDF records collected so far
  merged_data,            \* main.py: merged_data, result of merge_grant_data
  documentation_summary,  \* main.py: grant['documentation_summary']
  key,                    \* _categorize_information: argument key
  values,                 \* _categorize_information: argument values
  category,               \* _categorize_information: returned category
  pdf_url,                \* process_pdf: pdf_info['url'] of each pool worker
  wpc,                    \* position of each pool worker in process_pdf
  offset,                 \* download_pdf: chunks written through the open file
  fs,                     \* the files of config.PDF_DOWNLOAD_DIR, by path
  pdf_text,               \* process_pdf: pdf_text of each pool worker
  fn,                     \* the @retry-wrapped function being called
  attempt_number,         \* tenacity: attempts made in the current call
  rstate,                 \* tenacity: idle / calling / sleeping / returned / raised
  outcomes,               \* what each attempt of the current call met
  completed,              \* the calls process_grant has finished
  futures,                \* main: state of each submitted future (pending / ok / raised)
  handled,                \* main: the futures as_completed has yielded
  processed_grants,       \* main: processed_grants
  update_calls,           \* main: the calls of db_manager.update_documentation, in order
  mpc,                    \* position of main: processing / updating / finished
  link,                   \* process_grant: 1 while link_bando is processed, 2 while link_sito_bando is
  html_content,           \* process_grant: html_content
  pdf_links,              \* process_grant: pdf_links, the priority flag of each link
  link_idx,               \* process_grant: position of the running for loop in pdf_links
  processed,              \* process_grant: priority_pdfs_processed / non_priority_pdfs_processed
  last_pdf_result,        \* process_grant: pdf_result of the last process_pdf call
  printed_len,            \* process_grant: len(' '.join(str(d) for d in pdf_data)) of the last test
  func,                   \* the helper being applied: select / truncate / clean / normalize
  arg_items,              \* _select_most_informative_items: items
  arg_text,               \* truncate_text, clean_text, normalize_whitespace: text
  arg_limit,              \* max_items or max_length
  returned,               \* the value the helper returned
  calls,                  \* how many times the helper was applied
  epc,                    \* position of extract_grant_information
  page,                   \* the parsed page: matched headings and main content
  page_info,              \* structured_info of extract_grant_information
  term_idx,               \* index of the search term being processed
  upc,                    \* position of update_documentation: idle / check / update / second
  upd_attempt,            \* update_documentation: the attempt the retry wrapper is making
  db_calls,               \* update_documentation: the requests of the running call, in order
  tpc,                    \* position of process_pdf: idle / extract / content / returned
  raw_pdf_text,           \* extract_text_from_pdf: text, as extract_text(pdf_path) gives it
  norm_pdf_text,          \* process_pdf: pdf_text, what extract_text_from_pdf returned
  pdf_content,            \* process_pdf: result, its sections and lists
  rpc,                    \* position of main before the pool: start / batch / verify / submit / submitted / finished
  args,                   \* main: args, the command line
  bandi,                  \* the rows of the bandi table: the stato of each grant
  grants,                 \* main: grants
  submitted               \* main: the grants submitted to the executor

core_vars == <<pc, web_data, pdf_data, merged_data, documentation_summary>>
cat_vars == <<key, values, category>>
pool_vars == <<pdf_url, wpc, offset, fs, pdf_text>>
retry_vars == <<fn, attempt_number, rstate, outcomes, completed>>
main_vars == <<futures, handled, processed_grants, update_calls, mpc>>
grant_vars ==
  <<link, html_content, pdf_links, link_idx, processed, last_pdf_result, printed_len>>
util_vars == <<func, arg_items, arg_text, arg_limit, returned, calls>>
extract_vars == <<epc, page, page_info, term_idx>>
update_vars == <<upc, upd_attempt, db_calls>>
doc_vars == <<tpc, raw_pdf_text, norm_pdf_text, pdf_content>>
run_vars == <<rpc, args, bandi, grants, submitted>>
vars ==
  <<pc, web_data, pdf_data, merged_data, documentation_summary, key, values, category,
    pdf_url, wpc, offset, fs, pdf_text, fn, attempt_number, rstate, outcomes, completed,
    futures, handled, processed_grants, update_calls, mpc,
    link, html_content, pdf_links, link_idx, processed, last_pdf_result, printed_len,
    func, arg_items, arg_text, arg_limit, returned, calls,
    epc, page, page_info, term_idx,
    upc, upd_attempt, db_calls,
    tpc, raw_pdf_text, norm_pdf_text, pdf_content,
    rpc, args, bandi, grants, submitted>>

(***************************************************************************)
(* Python values                                                           *)
(***************************************************************************)
None == "None"

(* the empty string "" *)
EmptyStr == <<>>

(***************************************************************************)
(* Characters and str.lower()                                              *)
(***************************************************************************)
UpperChars ==
  <<"A", "B", "C", "D", "E", "F", "G", "H", "I", "J", "K", "L", "M",
    "N", "O", "P", "Q", "R", "S", "T", "U", "V", "W", "X", "Y", "Z", "E_grave">>

LowerChars ==
  <<"a", "b", "c", "d", "e", "f", "g", "h", "i", "j", "k", "l", "m",
    "n", "o", "p", "q", "r", "s", "t", "u", "v", "w", "x", "y", "z", "e_grave">>

LowerChar(c) ==
  IF \E i \in DOMAIN UpperChars : UpperChars[i] = c
  THEN LowerChars[CHOOSE i \in DOMAIN UpperChars : UpperChars[i] = c]
  ELSE c

Lower(s) == [i \in 1..Len(s) |-> LowerChar(s[i])]

(* Python's `t in s` for strings, and re.search of a literal *)
Contains(s, t) ==
  \E i \in 0..(Len(s) - Len(t)) : SubSeq(s, i + 1, i + Len(t)) = t

ContainsAny(s, terms) == \E t \in terms : Contains(s, t)

(* ' '.join(values) *)
RECURSIVE Join(_)
Join(vs) ==
  IF Len(vs) = 0 THEN EmptyStr
  ELSE IF Len(vs) = 1 THEN vs[1]
  ELSE vs[1] \o <<" ">> \o Join(Tail(vs))

(***************************************************************************)
(* The terms of the categorizer                                            *)
(***************************************************************************)
(* "document" *)
T_document ==
  <<"d", "o", "c", "u", "m", "e", "n", "t">>

(* "allegat" *)
T_allegat ==
  <<"a", "l", "l", "e", "g", "a", "t">>

(* "modulistic" *)
T_modulistic ==
  <<"m", "o", "d", "u", "l", "i", "s", "t", "i", "c">>

(* "certificaz" *)
T_certificaz ==
  <<"c", "e", "r", "t", "i", "f", "i", "c", "a", "z">>

(* "requisit" *)
T_requisit ==
  <<"r", "e", "q", "u", "i", "s", "i", "t">>

(* "necessari" *)
T_necessari ==
  <<"n", "e", "c", "e", "s", "s", "a", "r", "i">>

(* "obblig" *)
T_obblig ==
  <<"o", "b", "b", "l", "i", "g">>

(* "scadenz" *)
T_scadenz ==
  <<"s", "c", "a", "d", "e", "n", "z">>

(* "termin" *)
T_termin ==
  <<"t", "e", "r", "m", "i", "n">>

(* "tempistic" *)
T_tempistic ==
  <<"t", "e", "m", "p", "i", "s", "t", "i", "c">>

(* "deadline" *)
T_deadline ==
  <<"d", "e", "a", "d", "l", "i", "n", "e">>

(* "beneficiari" *)
T_beneficiari ==
  <<"b", "e", "n", "e", "f", "i", "c", "i", "a", "r", "i">>

(* "destinatari" *)
T_destinatari ==
  <<"d", "e", "s", "t", "i", "n", "a", "t", "a", "r", "i">>

(* "ammissibil" *)
T_ammissibil ==
  <<"a", "m", "m", "i", "s", "s", "i", "b", "i", "l">>

(* "eligibil" *)
T_eligibil ==
  <<"e", "l", "i", "g", "i", "b", "i", "l">>

(* "contribut" *)
T_contribut ==
  <<"c", "o", "n", "t", "r", "i", "b", "u", "t">>

(* "finanz" *)
T_finanz ==
  <<"f", "i", "n", "a", "n", "z">>

(* "budget" *)
T_budget ==
  <<"b", "u", "d", "g", "e", "t">>

(* "fond" *)
T_fond ==
  <<"f", "o", "n", "d">>

(* "spese" *)
T_spese ==
  <<"s", "p", "e", "s", "e">>

(* "entro il" *)
T_entro_il ==
  <<"e", "n", "t", "r", "o", " ", "i", "l">>

(* "richiesto" *)
T_richiesto ==
  <<"r", "i", "c", "h", "i", "e", "s", "t", "o">>

(* "eligible" *)
T_eligible ==
  <<"e", "l", "i", "g", "i", "b", "l", "e">>

(* "euro" *)
T_euro ==
  <<"e", "u", "r", "o">>

(* the euro sign *)
T_EUR ==
  <<"EUR">>

(***************************************************************************)
(* Section titles / keys used as inputs                                    *)
(***************************************************************************)
(* "Allegati obbligatori" *)
K_AllegatiObbligatori ==
  <<"A", "l", "l", "e", "g", "a", "t", "i", " ", "o", "b", "b", "l", "i", "g", "a", "t",
    "o", "r", "i">>

(* "Requisiti e scadenze" *)
K_RequisitiScadenze ==
  <<"R", "e", "q", "u", "i", "s", "i", "t", "i", " ", "e", " ", "s", "c", "a", "d", "e",
    "n", "z", "e">>

(* "Termini per i beneficiari" *)
K_TerminiBeneficiari ==
  <<"T", "e", "r", "m", "i", "n", "i", " ", "p", "e", "r", " ", "i", " ", "b", "e", "n",
    "e", "f", "i", "c", "i", "a", "r", "i">>

(* "Destinatari del contributo" *)
K_DestinatariContributo ==
  <<"D", "e", "s", "t", "i", "n", "a", "t", "a", "r", "i", " ", "d", "e", "l", " ", "c",
    "o", "n", "t", "r", "i", "b", "u", "t", "o">>

(* "Spese" *)
K_Spese ==
  <<"S", "p", "e", "s", "e">>

(* "DOCUMENTI" *)
K_DOCUMENTI ==
  <<"D", "O", "C", "U", "M", "E", "N", "T", "I">>

(* "Note" *)
K_Note ==
  <<"N", "o", "t", "e">>

(* "Misura" *)
K_Misura ==
  <<"M", "i", "s", "u", "r", "a">>

(* "Scadenza" *)
K_Scadenza ==
  <<"S", "c", "a", "d", "e", "n", "z", "a">>

(* "Documentazione" *)
K_Documentazione ==
  <<"D", "o", "c", "u", "m", "e", "n", "t", "a", "z", "i", "o", "n", "e">>

(* "Bando" *)
K_Bando ==
  <<"B", "a", "n", "d", "o">>

(* "Documenti" *)
K_Documenti ==
  <<"D", "o", "c", "u", "m", "e", "n", "t", "i">>

(***************************************************************************)
(* Content strings used as inputs                                          *)
(***************************************************************************)
(* "Il contributo e-grave di 5000 euro" *)
V_Euro ==
  <<"I", "l", " ", "c", "o", "n", "t", "r", "i", "b", "u", "t", "o", " ", "e_grave", " ",
    "d", "i", " ", "5", "0", "0", "0", " ", "e", "u", "r", "o">>

(* "Requisiti entro il 30 giugno" *)
V_RequisitiEntro ==
  <<"R", "e", "q", "u", "i", "s", "i", "t", "i", " ", "e", "n", "t", "r", "o", " ", "i",
    "l", " ", "3", "0", " ", "g", "i", "u", "g", "n", "o">>

(* "Allegati entro il termine" *)
V_AllegatiTermine ==
  <<"A", "l", "l", "e", "g", "a", "t", "i", " ", "e", "n", "t", "r", "o", " ", "i", "l",
    " ", "t", "e", "r", "m", "i", "n", "e">>

(* "Richiesto ai destinatari" *)
V_RichiestoDestinatari ==
  <<"R", "i", "c", "h", "i", "e", "s", "t", "o", " ", "a", "i", " ", "d", "e", "s", "t",
    "i", "n", "a", "t", "a", "r", "i">>

(* "Imprese eligible con budget" *)
V_EligibleBudget ==
  <<"I", "m", "p", "r", "e", "s", "e", " ", "e", "l", "i", "g", "i", "b", "l", "e", " ",
    "c", "o", "n", " ", "b", "u", "d", "g", "e", "t">>

(* "Testo generico" *)
V_Generico ==
  <<"T", "e", "s", "t", "o", " ", "g", "e", "n", "e", "r", "i", "c", "o">>

(* "La misura sostiene le imprese" *)
V_Misura ==
  <<"L", "a", " ", "m", "i", "s", "u", "r", "a", " ", "s", "o", "s", "t", "i", "e", "n",
    "e", " ", "l", "e", " ", "i", "m", "p", "r", "e", "s", "e">>

(* "SCADENZA 30 GIUGNO" *)
V_SCADENZA ==
  <<"S", "C", "A", "D", "E", "N", "Z", "A", " ", "3", "0", " ", "G", "I", "U", "G", "N", "O">>

(* "entro" *)
V_entro ==
  <<"e", "n", "t", "r", "o">>

(* "il 30" *)
V_il30 ==
  <<"i", "l", " ", "3", "0">>

(* "Tempistiche previste" *)
V_Tempistiche ==
  <<"T", "e", "m", "p", "i", "s", "t", "i", "c", "h", "e", " ", "p", "r", "e", "v", "i", "s", "t", "e">>

(* "Spese sostenute" *)
V_SpeseSostenute ==
  <<"S", "p", "e", "s", "e", " ", "s", "o", "s", "t", "e", "n", "u", "t", "e">>

(* "Criteri di eligibilita" *)
V_Eligibilita ==
  <<"C", "r", "i", "t", "e", "r", "i", " ", "d", "i", " ", "e", "l", "i", "g", "i", "b", "i", "l", "i", "t", "a">>

(***************************************************************************)
(* Literals of generate_summary, merge_grant_data and the ranker           *)
(***************************************************************************)
(* "Nessuna documentazione necessaria specificata." *)
S_Sentinel ==
  <<"N", "e", "s", "s", "u", "n", "a", " ", "d", "o", "c", "u", "m", "e", "n", "t", "a",
    "z", "i", "o", "n", "e", " ", "n", "e", "c", "e", "s", "s", "a", "r", "i", "a", " ",
    "s", "p", "e", "c", "i", "f", "i", "c", "a", "t", "a", ".">>

(* "# " *)
S_H1 ==
  <<"#", " ">>

(* "# Documentazione Necessaria" *)
S_DefaultTitle ==
  <<"#", " ", "D", "o", "c", "u", "m", "e", "n", "t", "a", "z", "i", "o", "n", "e", " ",
    "N", "e", "c", "e", "s", "s", "a", "r", "i", "a">>

(* "\n## Panoramica\n" *)
S_Panoramica ==
  <<"\n", "#", "#", " ", "P", "a", "n", "o", "r", "a", "m", "i", "c", "a", "\n">>

(* "\n## Documentazione Richiesta" *)
S_DocumentazioneRichiesta ==
  <<"\n", "#", "#", " ", "D", "o", "c", "u", "m", "e", "n", "t", "a", "z", "i", "o", "n",
    "e", " ", "R", "i", "c", "h", "i", "e", "s", "t", "a">>

(* "\n## Requisiti" *)
S_Requisiti ==
  <<"\n", "#", "#", " ", "R", "e", "q", "u", "i", "s", "i", "t", "i">>

(* "\n## Beneficiari Ammissibili" *)
S_BeneficiariAmmissibili ==
  <<"\n", "#", "#", " ", "B", "e", "n", "e", "f", "i", "c", "i", "a", "r", "i", " ", "A",
    "m", "m", "i", "s", "s", "i", "b", "i", "l", "i">>

(* "\n## Finanziamento" *)
S_Finanziamento ==
  <<"\n", "#", "#", " ", "F", "i", "n", "a", "n", "z", "i", "a", "m", "e", "n", "t", "o">>

(* "\n## Scadenze" *)
S_Scadenze ==
  <<"\n", "#", "#", " ", "S", "c", "a", "d", "e", "n", "z", "e">>

(* "\n## " *)
S_H2 ==
  <<"\n", "#", "#", " ">>

(* "- " *)
S_Bullet ==
  <<"-", " ">>

(* "\n## Fonti PDF" *)
S_FontiPdf ==
  <<"\n", "#", "#", " ", "F", "o", "n", "t", "i", " ", "P", "D", "F">>

(* " [" *)
S_LBracket ==
  <<" ", "[">>

(* "]" *)
S_RBracket ==
  <<"]">>

(* "\n\n_Ultimo aggiornamento: " *)
S_UltimoAggiornamento ==
  <<"\n", "\n", "_", "U", "l", "t", "i", "m", "o", " ", "a", "g", "g", "i", "o", "r", "n",
    "a", "m", "e", "n", "t", "o", ":", " ">>

(* "_" *)
S_Underscore ==
  <<"_">>

(* "PDF" *)
S_PDF ==
  <<"P", "D", "F">>

(* "..." *)
S_Ellipsis ==
  <<".", ".", ".">>

(* "\n" *)
S_Newline ==
  <<"\n">>

(* "Informazioni dal PDF" *)
S_InformazioniDalPdf ==
  <<"I", "n", "f", "o", "r", "m", "a", "z", "i", "o", "n", "i", " ", "d", "a", "l", " ",
    "P", "D", "F">>

(* "requisi" *)
S_requisi ==
  <<"r", "e", "q", "u", "i", "s", "i">>

(* "benefi" *)
S_benefi ==
  <<"b", "e", "n", "e", "f", "i">>

(* "scad" *)
S_scad ==
  <<"s", "c", "a", "d">>

(* "visura" *)
T_visura ==
  <<"v", "i", "s", "u", "r", "a">>

(* "camerale" *)
T_camerale ==
  <<"c", "a", "m", "e", "r", "a", "l", "e">>

(* "bilanci" *)
T_bilanci ==
  <<"b", "i", "l", "a", "n", "c", "i">>

(* "ula" *)
T_ula ==
  <<"u", "l", "a">>

(* "dipendenti" *)
T_dipendenti ==
  <<"d", "i", "p", "e", "n", "d", "e", "n", "t", "i">>

(* "brevetto" *)
T_brevetto ==
  <<"b", "r", "e", "v", "e", "t", "t", "o">>

(* "patent" *)
T_patent ==
  <<"p", "a", "t", "e", "n", "t">>

(* "concessione" *)
T_concessione ==
  <<"c", "o", "n", "c", "e", "s", "s", "i", "o", "n", "e">>

(* "identita-grave" *)
T_identita ==
  <<"i", "d", "e", "n", "t", "i", "t", "a_grave">>

(* "digitale" *)
T_digitale ==
  <<"d", "i", "g", "i", "t", "a", "l", "e">>

(* "context" *)
F_context ==
  <<"c", "o", "n", "t", "e", "x", "t">>

(* "main_content" *)
F_main_content ==
  <<"m", "a", "i", "n", "_", "c", "o", "n", "t", "e", "n", "t">>

(* "sections" *)
F_sections ==
  <<"s", "e", "c", "t", "i", "o", "n", "s">>

(* "lists" *)
F_lists ==
  <<"l", "i", "s", "t", "s">>

(* "tables" *)
F_tables ==
  <<"t", "a", "b", "l", "e", "s">>

(* "source" *)
F_source ==
  <<"s", "o", "u", "r", "c", "e">>

(* "filename" *)
F_filename ==
  <<"f", "i", "l", "e", "n", "a", "m", "e">>

(* "is_priority" *)
F_is_priority ==
  <<"i", "s", "_", "p", "r", "i", "o", "r", "i", "t", "y">>

(* the keys of a PDF record as strings *)
FieldName ==
  [context |-> F_context, main_content |-> F_main_content, sections |-> F_sections,
   lists |-> F_lists, tables |-> F_tables, source |-> F_source,
   filename |-> F_filename, is_priority |-> F_is_priority]

(***************************************************************************)
(* Titles, items, contexts and sources used as inputs                      *)
(***************************************************************************)
(* "Informazioni" *)
K_Informazioni ==
  <<"I", "n", "f", "o", "r", "m", "a", "z", "i", "o", "n", "i">>

(* "Visura camerale" *)
I_VisuraCamerale ==
  <<"V", "i", "s", "u", "r", "a", " ", "c", "a", "m", "e", "r", "a", "l", "e">>

(* "Bilanci ultimi 3 anni" *)
I_Bilanci3 ==
  <<"B", "i", "l", "a", "n", "c", "i", " ", "u", "l", "t", "i", "m", "i", " ", "3", " ",
    "a", "n", "n", "i">>

(* "Modulo A1" *)
I_ModuloA1 ==
  <<"M", "o", "d", "u", "l", "o", " ", "A", "1">>

(* "CV" *)
I_CV ==
  <<"C", "V">>

(* "Visura" *)
I_Visura ==
  <<"V", "i", "s", "u", "r", "a">>

(* "Bilancio" *)
I_Bilancio ==
  <<"B", "i", "l", "a", "n", "c", "i", "o">>

(* "Bando Ricerca" *)
Title_BandoRicerca ==
  <<"B", "a", "n", "d", "o", " ", "R", "i", "c", "e", "r", "c", "a">>

(* "Bando A" *)
Title_BandoA ==
  <<"B", "a", "n", "d", "o", " ", "A">>

(* "Bando Ricerca Lungo" *)
Title_BandoRicercaLungo ==
  <<"B", "a", "n", "d", "o", " ", "R", "i", "c", "e", "r", "c", "a", " ", "L", "u", "n",
    "g", "o">>

(* "Bando B" *)
Title_BandoB ==
  <<"B", "a", "n", "d", "o", " ", "B">>

(* a link context of 100 characters *)
Ctx_Long == [i \in 1..100 |-> "x"]

(* "Modulistica" *)
Ctx_Modulistica ==
  <<"M", "o", "d", "u", "l", "i", "s", "t", "i", "c", "a">>

(* "Avviso" *)
Ctx_Avviso ==
  <<"A", "v", "v", "i", "s", "o">>

(* "http://e.it/bando" *)
Url_Page1 ==
  <<"h", "t", "t", "p", ":", "/", "/", "e", ".", "i", "t", "/", "b", "a", "n", "d", "o">>

(* "http://e.it/sito" *)
Url_Page2 ==
  <<"h", "t", "t", "p", ":", "/", "/", "e", ".", "i", "t", "/", "s", "i", "t", "o">>

(* "http://a.it/modulo.pdf" *)
Url_A_Modulo ==
  <<"h", "t", "t", "p", ":", "/", "/", "a", ".", "i", "t", "/", "m", "o", "d", "u", "l",
    "o", ".", "p", "d", "f">>

(* "http://b.it/modulo.pdf" *)
Url_B_Modulo ==
  <<"h", "t", "t", "p", ":", "/", "/", "b", ".", "i", "t", "/", "m", "o", "d", "u", "l",
    "o", ".", "p", "d", "f">>

(* "http://a.it/avviso.pdf" *)
Url_A_Avviso ==
  <<"h", "t", "t", "p", ":", "/", "/", "a", ".", "i", "t", "/", "a", "v", "v", "i", "s",
    "o", ".", "p", "d", "f">>

(* "modulo.pdf" *)
File_Modulo ==
  <<"m", "o", "d", "u", "l", "o", ".", "p", "d", "f">>

(* "avviso.pdf" *)
File_Avviso ==
  <<"a", "v", "v", "i", "s", "o", ".", "p", "d", "f">>

(* "Voce  Importo" *)
Row_1 ==
  <<"V", "o", "c", "e", " ", " ", "I", "m", "p", "o", "r", "t", "o">>

(* "01/11/2026 10:00" *)
Time_1 ==
  <<"0", "1", "/", "1", "1", "/", "2", "0", "2", "6", " ", "1", "0", ":", "0", "0">>

(* "02/11/2026 09:30" *)
Time_2 ==
  <<"0", "2", "/", "1", "1", "/", "2", "0", "2", "6", " ", "0", "9", ":", "3", "0">>

(***************************************************************************)
(* DocumentationAnalyzer._categorize_information                           *)
(***************************************************************************)
KeyDocumentation == {T_document, T_allegat, T_modulistic, T_certificaz}

KeyRequirements == {T_requisit, T_necessari, T_obblig}

KeyDeadlines == {T_scadenz, T_termin, T_tempistic, T_deadline}

KeyEligibility == {T_beneficiari, T_destinatari, T_ammissibil, T_eligibil}

KeyFunding == {T_contribut, T_finanz, T_budget, T_fond, T_spese}

ContentDocumentation == {T_document, T_allegat, T_modulistic, T_certificaz}

ContentDeadlines == {T_scadenz, T_termin, T_entro_il, T_deadline}

ContentRequirements == {T_requisit, T_necessari, T_obblig, T_richiesto}

ContentEligibility == {T_beneficiari, T_destinatari, T_ammissibil, T_eligible}

ContentFunding == {T_contribut, T_finanz, T_budget, T_fond, T_euro, T_EUR}

(* a bug: the requirements rule is tried before the documentation rule *)
KeyCategoryReqFirst(key_lower) ==
  IF ContainsAny(key_lower, KeyRequirements) THEN "requirements"
  ELSE IF ContainsAny(key_lower, KeyDocumentation) THEN "documentation"
  ELSE IF ContainsAny(key_lower, KeyDeadlines) THEN "deadlines"
  ELSE IF ContainsAny(key_lower, KeyEligibility) THEN "eligibility"
  ELSE IF ContainsAny(key_lower, KeyFunding) THEN "funding"
  ELSE None

(* the if/elif chain on the lowercase key *)
KeyCategory(key_lower) ==
  IF ContainsAny(key_lower, KeyDocumentation) THEN "documentation"
  ELSE IF ContainsAny(key_lower, KeyRequirements) THEN "requirements"
  ELSE IF ContainsAny(key_lower, KeyDeadlines) THEN "deadlines"
  ELSE IF ContainsAny(key_lower, KeyEligibility) THEN "eligibility"
  ELSE IF ContainsAny(key_lower, KeyFunding) THEN "funding"
  ELSE None

(* a bug: the content rules are tried in the order of the key rules *)
ContentCategoryKeyOrder(vs) ==
  IF Len(vs) > 0
  THEN LET text_lower == Lower(Join(vs))
       IN  IF ContainsAny(text_lower, ContentDocumentation) THEN "documentation"
           ELSE IF ContainsAny(text_lower, ContentRequirements) THEN "requirements"
           ELSE IF ContainsAny(text_lower, ContentDeadlines) THEN "deadlines"
           ELSE IF ContainsAny(text_lower, ContentEligibility) THEN "eligibility"
           ELSE IF ContainsAny(text_lower, ContentFunding) THEN "funding"
           ELSE None
  ELSE None

(* the content fallback: `if values:` and the re.search chain *)
ContentCategory(vs) ==
  IF Len(vs) > 0
  THEN LET text_lower == Lower(Join(vs))
       IN  IF ContainsAny(text_lower, ContentDocumentation) THEN "documentation"
           ELSE IF ContainsAny(text_lower, ContentDeadlines) THEN "deadlines"
           ELSE IF ContainsAny(text_lower, ContentRequirements) THEN "requirements"
           ELSE IF ContainsAny(text_lower, ContentEligibility) THEN "eligibility"
           ELSE IF ContainsAny(text_lower, ContentFunding) THEN "funding"
           ELSE None
  ELSE None

categorize_information(k, vs) ==
  LET by_key == KeyCategory(Lower(k))
  IN  IF by_key # None THEN by_key ELSE ContentCategory(vs)

(***************************************************************************)
(* Python dicts.  A dict with string keys known to the code is a TLA+      *)
(* record (a function on its keys); {} is the function with no keys.  A    *)
(* dict keyed by extracted text keeps insertion order and is a sequence of *)
(* entries [k, v] with distinct keys.                                      *)
(***************************************************************************)
EmptyDict == [f \in {} |-> 0]

(* None where a string is expected: a one-element sequence no text equals *)
NoneStr == <<None>>

(* truthiness of an optional string *)
Truthy(s) == s # NoneStr /\ Len(s) > 0

(* data.get(field) for an optional string field *)
GetStr(data, field) == IF field \in DOMAIN data THEN data[field] ELSE NoneStr

DictHas(d, k) == \E i \in DOMAIN d : d[i].k = k

DictIdx(d, k) == CHOOSE i \in DOMAIN d : d[i].k = k

DictGet(d, k) == d[DictIdx(d, k)].v

(* a bug: an overwritten key moves to the end, as `del d[k]; d[k] = v` does *)
DictPutMoveToEnd(d, k, v) ==
  Append(SelectSeq(d, LAMBDA e : e.k # k), [k |-> k, v |-> v])

(* d[k] = v : a new key goes last, an existing key keeps its position *)
DictPut(d, k, v) ==
  IF DictHas(d, k)
  THEN [d EXCEPT ![DictIdx(d, k)] = [k |-> k, v |-> v]]
  ELSE Append(d, [k |-> k, v |-> v])

(* one iteration of a loop: the body has left the value v before the rest *)
(* of the loop, Rest, runs on it                                          *)
AndThen(v, Rest(_)) == CHOOSE r \in {Rest(x) : x \in {v}} : TRUE

(* d.update-like loop `for key, value in src.items(): d[key] = value` *)
RECURSIVE DictPutAll(_, _)
DictPutAll(d, src) ==
  IF Len(src) = 0 THEN d
  ELSE AndThen(DictPut(d, src[1].k, src[1].v), LAMBDA d1 : DictPutAll(d1, Tail(src)))

InSeq(x, s) == \E i \in DOMAIN s : s[i] = x

(* a section value is a string or a list of strings *)
StrVal(s) == [str |-> s]

ListVal(l) == [list |-> l]

IsList(v) == "list" \in DOMAIN v

(***************************************************************************)
(* DocumentationAnalyzer.merge_grant_data                                  *)
(***************************************************************************)
Categories == <<"requirements", "documentation", "deadlines", "eligibility", "funding">>

(* lines 43-54 *)
MergedStart ==
  [title |-> EmptyStr, overview |-> EmptyStr, sections |-> <<>>, lists |-> <<>>,
   requirements |-> <<>>, documentation |-> <<>>, deadlines |-> <<>>,
   eligibility |-> <<>>, funding |-> <<>>, pdf_sources |-> <<>>]

(* a bug: `>=` for `>`, the latest of the longest titles wins *)
RECURSIVE WebTitleLatestOnTie(_, _)
WebTitleLatestOnTie(web, title) ==
  IF Len(web) = 0 THEN title
  ELSE LET t == GetStr(web[1], "title")
       IN  AndThen(IF Truthy(t) /\ (Len(title) = 0 \/ Len(t) >= Len(title))
                   THEN t ELSE title,
                   LAMBDA t1 : WebTitleLatestOnTie(Tail(web), t1))

(* lines 57-61: the longest web title, the earliest on a tie *)
RECURSIVE WebTitle(_, _)
WebTitle(web, title) ==
  IF Len(web) = 0 THEN title
  ELSE LET t == GetStr(web[1], "title")
       IN  AndThen(IF Truthy(t) /\ (Len(title) = 0 \/ Len(t) > Len(title))
                   THEN t ELSE title,
                   LAMBDA t1 : WebTitle(Tail(web), t1))

(* lines 64-68: the first PDF context shorter than 100 characters *)
RECURSIVE PdfTitle(_)
PdfTitle(pdf) ==
  IF Len(pdf) = 0 THEN EmptyStr
  ELSE LET c == GetStr(pdf[1], "context")
       IN  IF Truthy(c) /\ Len(c) < 100 THEN c ELSE PdfTitle(Tail(pdf))

MergedTitle(web, pdf) ==
  LET t == WebTitle(web, EmptyStr)
  IN  IF Len(t) = 0 /\ Len(pdf) > 0 THEN PdfTitle(pdf) ELSE t

(* a bug: every item of the second list is appended, seen or not *)
CombineListsNoCheck(existing, value) == existing \o value

(* lines 91-95 and 135-139: append the items not yet present *)
RECURSIVE CombineLists(_, _)
CombineLists(existing, value) ==
  IF Len(value) = 0 THEN existing
  ELSE AndThen(IF InSeq(value[1], existing) THEN existing
               ELSE Append(existing, value[1]),
               LAMBDA e1 : CombineLists(e1, Tail(value)))

(* lines 87-95 and 132-139 for one list of a record.  ls = [lists, alias]:  *)
(* `lists[k] = value` stores the record's own list object, so alias[k]      *)
(* remembers which input list [src, rec, idx] the later appends go to.      *)
MergeOneList(ls, k, value, ref) ==
  IF ~DictHas(ls.lists, k)
  THEN [lists |-> DictPut(ls.lists, k, value), alias |-> DictPut(ls.alias, k, ref)]
  ELSE [lists |-> DictPut(ls.lists, k, CombineLists(DictGet(ls.lists, k), value)),
        alias |-> ls.alias]

RECURSIVE MergeWebLists(_, _, _, _)
MergeWebLists(ls, src, rec, idx) ==
  IF idx > Len(src) THEN ls
  ELSE AndThen(MergeOneList(ls, src[idx].k, src[idx].v,
                            [src |-> "web", rec |-> rec, idx |-> idx]),
               LAMBDA ls1 : MergeWebLists(ls1, src, rec, idx + 1))

(* lines 98-107 *)
RECURSIVE AppendTables(_, _)
AppendTables(tables, src) ==
  IF Len(src) = 0 THEN tables
  ELSE AndThen(Append(tables, [title |-> src[1].k, data |-> src[1].v]),
               LAMBDA t1 : AppendTables(t1, Tail(src)))

MergeTables(md, data) ==
  IF "tables" \in DOMAIN data /\ Len(data.tables) > 0
  THEN LET old == IF "tables" \in DOMAIN md THEN md.tables ELSE <<>>
       IN  [k \in DOMAIN md \cup {"tables"} |->
              IF k = "tables" THEN AppendTables(old, data.tables) ELSE md[k]]
  ELSE md

(* lines 74-107, one web record; st = [md, all_sections, alias] *)
FoldWebRecord(st, data, rec) ==
  LET mc == GetStr(data, "main_content")
      md1 == IF Truthy(mc) /\ Len(mc) > Len(st.md.overview)
             THEN [st.md EXCEPT !.overview = mc] ELSE st.md
      as1 == IF "structured_info" \in DOMAIN data
             THEN DictPutAll(st.all_sections, data.structured_info)
             ELSE st.all_sections
      ls  == IF "lists" \in DOMAIN data
             THEN MergeWebLists([lists |-> md1.lists, alias |-> st.alias],
                                data.lists, rec, 1)
             ELSE [lists |-> md1.lists, alias |-> st.alias]
      md2 == [md1 EXCEPT !.lists = ls.lists]
  IN  [md |-> MergeTables(md2, data), all_sections |-> as1, alias |-> ls.alias]

RECURSIVE FoldWeb(_, _, _)
FoldWeb(st, web, rec) ==
  IF rec > Len(web) THEN st
  ELSE AndThen(FoldWebRecord(st, web[rec], rec), LAMBDA st1 : FoldWeb(st1, web, rec + 1))

(* line 143: the stems the PDF loop compares a record's keys with *)
search_terms ==
  {T_document, T_allegat, T_modulistic, T_certificaz, T_requisit, T_necessari,
   T_obblig, T_scadenz, T_termin, T_tempistic, T_deadline, T_beneficiari,
   T_destinatari, T_ammissibil, T_eligibil, T_contribut, T_finanz, T_budget,
   T_fond, T_spese}

(* lines 112-118 *)
PdfSources(md, data) ==
  IF Truthy(GetStr(data, "source"))
  THEN [md EXCEPT !.pdf_sources =
          Append(@, [url |-> data.source,
                     filename |-> IF "filename" \in DOMAIN data THEN data.filename
                                  ELSE EmptyStr,
                     context |-> IF "context" \in DOMAIN data THEN data.context
                                 ELSE EmptyStr])]
  ELSE md

(* lines 128-130 *)
PdfListTitle(data) ==
  IF Truthy(GetStr(data, "context")) THEN data.context ELSE S_InformazioniDalPdf

(* lines 126-139 *)
RECURSIVE MergePdfLists(_, _, _, _)
MergePdfLists(ls, data, rec, idx) ==
  IF idx > Len(data.lists) THEN ls
  ELSE AndThen(MergeOneList(ls, PdfListTitle(data), data.lists[idx],
                            [src |-> "pdf", rec |-> rec, idx |-> idx]),
               LAMBDA ls1 : MergePdfLists(ls1, data, rec, idx + 1))

(* data.keys() of a PDF record, in insertion order: the keys set by          *)
(* process_pdf_content, the term buckets, then the keys set by process_pdf  *)
PdfKeys(data) ==
  LET fixed1 == SelectSeq(<<"context", "main_content", "sections", "lists", "tables">>,
                          LAMBDA f : f \in DOMAIN data)
      fixed2 == SelectSeq(<<"source", "filename", "is_priority">>,
                          LAMBDA f : f \in DOMAIN data)
      bucket == IF "buckets" \in DOMAIN data
                THEN [i \in 1..Len(data.buckets) |-> data.buckets[i].k] ELSE <<>>
  IN  [i \in 1..Len(fixed1) |-> FieldName[fixed1[i]]] \o bucket
        \o [i \in 1..Len(fixed2) |-> FieldName[fixed2[i]]]

(* lines 142-147: `key in search_terms` is membership in the list of stems, *)
(* an equality test of the whole key.  Only a term bucket can pass it: the  *)
(* names of the fixed fields are none of the stems.                         *)
RECURSIVE PdfTopics(_, _, _)
PdfTopics(md, data, ks) ==
  LET found == SelectSeq(ks, LAMBDA t : t \in search_terms /\ "buckets" \in DOMAIN data
                                            /\ DictHas(data.buckets, t))
      k == found[1]
      cat == categorize_information(k, DictGet(data.buckets, k))
  IN  IF Len(found) = 0 THEN md
      ELSE AndThen(IF cat # None
                   THEN [md EXCEPT ![cat] = @ \o DictGet(data.buckets, k)]
                   ELSE md,
                   LAMBDA md1 : PdfTopics(md1, data, Tail(found)))

(* lines 110-147, one PDF record *)
FoldPdfRecord(st, data, rec) ==
  LET md1 == PdfSources(st.md, data)
      as1 == IF "sections" \in DOMAIN data
             THEN DictPutAll(st.all_sections, data.sections)
             ELSE st.all_sections
      ls  == IF "lists" \in DOMAIN data /\ Len(data.lists) > 0
             THEN MergePdfLists([lists |-> md1.lists, alias |-> st.alias], data, rec, 1)
             ELSE [lists |-> md1.lists, alias |-> st.alias]
      md2 == [md1 EXCEPT !.lists = ls.lists]
  IN  [md |-> PdfTopics(md2, data, PdfKeys(data)), all_sections |-> as1,
       alias |-> ls.alias]

RECURSIVE FoldPdf(_, _, _)
FoldPdf(st, pdf, rec) ==
  IF rec > Len(pdf) THEN st
  ELSE AndThen(FoldPdfRecord(st, pdf[rec], rec), LAMBDA st1 : FoldPdf(st1, pdf, rec + 1))

(* lines 150-161 for one entry of all_sections *)
DrainEntry(md, e) ==
  IF IsList(e.v)
  THEN LET cat == categorize_information(e.k, e.v.list)
       IN  IF cat # None THEN [md EXCEPT ![cat] = @ \o e.v.list] ELSE md
  ELSE LET cat == categorize_information(e.k, <<e.v.str>>)
       IN  IF cat # None THEN [md EXCEPT ![cat] = Append(@, e.v.str)]
           ELSE [md EXCEPT !.sections = DictPut(@, e.k, e.v.str)]

RECURSIVE Drain(_, _)
Drain(md, all_sections) ==
  IF Len(all_sections) = 0 THEN md
  ELSE AndThen(DrainEntry(md, all_sections[1]), LAMBDA md1 : Drain(md1, Tail(all_sections)))

(* a bug: the later occurrence of a repeated item is the one kept *)
RECURSIVE DedupKeepLast(_)
DedupKeepLast(items) ==
  IF Len(items) = 0 THEN <<>>
  ELSE IF InSeq(items[1], Tail(items)) THEN DedupKeepLast(Tail(items))
  ELSE <<items[1]>> \o DedupKeepLast(Tail(items))

(* list(dict.fromkeys(items)) *)
RECURSIVE DedupFrom(_, _)
DedupFrom(kept, items) ==
  IF Len(items) = 0 THEN kept
  ELSE AndThen(IF InSeq(items[1], kept) THEN kept ELSE Append(kept, items[1]),
               LAMBDA k1 : DedupFrom(k1, Tail(items)))

Dedup(items) == DedupFrom(<<>>, items)

(* lines 164-166 *)
DedupCategories(md) ==
  [k \in DOMAIN md |->
     IF InSeq(k, Categories) /\ Len(md[k]) > 0 THEN Dedup(md[k]) ELSE md[k]]

(* the state of the merge just before the drain: lines 43-147 *)
MergeFolded(web, pdf) ==
  LET st0 == [md |-> [MergedStart EXCEPT !.title = MergedTitle(web, pdf)],
              all_sections |-> <<>>, alias |-> <<>>]
  IN  FoldPdf(FoldWeb(st0, web, 1), pdf, 1)

(* the working mapping all_sections as the drain finds it *)
AllSections(web, pdf) == MergeFolded(web, pdf).all_sections

(* the category sequences before the final deduplication: lines 43-161 *)
MergeUndeduped(web, pdf) ==
  LET st == MergeFolded(web, pdf) IN Drain(st.md, st.all_sections)

merge_grant_data(web, pdf) ==
  IF Len(web) = 0 /\ Len(pdf) = 0 THEN EmptyDict
  ELSE DedupCategories(MergeUndeduped(web, pdf))

(***************************************************************************)
(* utils.truncate_text                                                     *)
(***************************************************************************)
(* a bug: s.find(c), the first occurrence *)
RFindFirst(s, c) ==
  IF \E i \in DOMAIN s : s[i] = c
  THEN (CHOOSE i \in DOMAIN s : s[i] = c /\ \A j \in DOMAIN s : s[j] = c => i <= j) - 1
  ELSE -1

(* s.rfind(c): the 0-based index of the last occurrence, -1 if none *)
RFind(s, c) ==
  IF \E i \in DOMAIN s : s[i] = c
  THEN (CHOOSE i \in DOMAIN s : s[i] = c /\ \A j \in DOMAIN s : s[j] = c => j <= i) - 1
  ELSE -1

truncate_text(text, max_length) ==
  IF Len(text) = 0 \/ Len(text) <= max_length THEN text
  ELSE LET last_period == RFind(SubSeq(text, 1, max_length), ".")
       IN  IF last_period = -1 THEN SubSeq(text, 1, max_length) \o S_Ellipsis
           ELSE SubSeq(text, 1, last_period + 1)

(***************************************************************************)
(* DocumentationAnalyzer._select_most_informative_items                    *)
(***************************************************************************)
important_keywords ==
  <<T_document, T_allegat, T_modulistic, T_requisit, T_scadenz, T_termin, T_entro_il,
    T_deadline, T_beneficiari, T_destinatari, T_ammissibil, T_contribut, T_finanz,
    T_budget, T_fond, T_euro, T_EUR, T_visura, T_camerale, T_bilanci, T_ula,
    T_dipendenti, T_brevetto, T_patent, T_concessione, T_identita, T_digitale>>

Digits == {"0", "1", "2", "3", "4", "5", "6", "7", "8", "9"}

Min(a, b) == IF a <= b THEN a ELSE b

(* 50 * (length_score + keyword_score): min(5, len/50) is min(250, len)/50 *)
Score50(item) ==
  LET low == Lower(item)
      kw  == Cardinality({i \in DOMAIN important_keywords :
                            Contains(low, important_keywords[i])})
      num == IF \E i \in DOMAIN item : item[i] \in Digits THEN 1 ELSE 0
  IN  Min(250, Len(item)) + 50 * (kw + num)

(* a bug: an item goes before those scoring the same, as sorting ascending  *)
(* and reversing does                                                      *)
RECURSIVE SortedInsertTiesReversed(_, _)
SortedInsertTiesReversed(sorted, item) ==
  IF Len(sorted) = 0 THEN <<item>>
  ELSE IF Score50(sorted[1]) > Score50(item)
       THEN <<sorted[1]>> \o SortedInsertTiesReversed(Tail(sorted), item)
       ELSE <<item>> \o sorted

(* sorted(..., reverse=True) is stable: an item goes after those scoring >= it *)
RECURSIVE SortedInsert(_, _)
SortedInsert(sorted, item) ==
  IF Len(sorted) = 0 THEN <<item>>
  ELSE IF Score50(sorted[1]) >= Score50(item)
       THEN <<sorted[1]>> \o SortedInsert(Tail(sorted), item)
       ELSE <<item>> \o sorted

RECURSIVE SortByScore(_, _)
SortByScore(sorted, items) ==
  IF Len(items) = 0 THEN sorted
  ELSE AndThen(SortedInsert(sorted, items[1]), LAMBDA s1 : SortByScore(s1, Tail(items)))

(* the limits of the selection: max_items of line 221 and of line 340 *)
CategoryMaxItems == 10

ListMaxItems == 5

select_most_informative_items(items, max_items) ==
  IF Len(items) = 0 THEN <<>>
  ELSE IF Len(items) <= max_items THEN items
  ELSE LET scored == SelectSeq(items, LAMBDA item : Len(item) >= 15)
           sorted_items == SortByScore(<<>>, scored)
       IN  SubSeq(sorted_items, 1, Min(max_items, Len(sorted_items)))

(***************************************************************************)
(* DocumentationAnalyzer.generate_summary                                  *)
(***************************************************************************)
RECURSIVE Bullets(_)
Bullets(items) ==
  IF Len(items) = 0 THEN <<>>
  ELSE <<S_Bullet \o items[1]>> \o Bullets(Tail(items))

(* one category section: the heading and a bullet per selected item *)
CategoryParts(grant_data, field, heading) ==
  IF field \in DOMAIN grant_data /\ Len(grant_data[field]) > 0
  THEN <<heading>> \o Bullets(select_most_informative_items(grant_data[field], CategoryMaxItems))
  ELSE <<>>

(* lines 337-343 *)
RECURSIVE ListParts(_)
ListParts(lists) ==
  IF Len(lists) = 0 THEN <<>>
  ELSE (IF Len(lists[1].v) > 1
        THEN <<S_H2 \o lists[1].k>>
               \o Bullets(select_most_informative_items(lists[1].v, ListMaxItems))
        ELSE <<>>)
       \o ListParts(Tail(lists))

RelevanceKeywords == {T_document, T_allegat, S_requisi, S_benefi, S_scad, T_finanz}

(* lines 346-352 *)
RECURSIVE SectionParts(_)
SectionParts(sections) ==
  IF Len(sections) = 0 THEN <<>>
  ELSE (IF Len(sections[1].v) > 100
           /\ ContainsAny(Lower(sections[1].k \o sections[1].v), RelevanceKeywords)
        THEN <<S_H2 \o sections[1].k, truncate_text(sections[1].v, 300)>>
        ELSE <<>>)
       \o SectionParts(Tail(sections))

(* lines 355-363 *)
RECURSIVE SourceLines(_)
SourceLines(pdfs) ==
  IF Len(pdfs) = 0 THEN <<>>
  ELSE LET filename == IF "filename" \in DOMAIN pdfs[1] THEN pdfs[1].filename ELSE S_PDF
           context == IF "context" \in DOMAIN pdfs[1] THEN pdfs[1].context ELSE EmptyStr
       IN  <<IF Len(context) > 0
             THEN S_Bullet \o context \o S_LBracket \o filename \o S_RBracket
             ELSE S_Bullet \o filename>>
           \o SourceLines(Tail(pdfs))

(* "\n".join(parts) *)
RECURSIVE JoinLines(_)
JoinLines(parts) ==
  IF Len(parts) = 0 THEN EmptyStr
  ELSE IF Len(parts) = 1 THEN parts[1]
  ELSE parts[1] \o S_Newline \o JoinLines(Tail(parts))

HasItems(grant_data, field) == field \in DOMAIN grant_data /\ Len(grant_data[field]) > 0

(* a bug: the Scadenze part is appended before the Finanziamento part *)
SummaryPartsDeadlinesEarly(grant_data, timestamp) ==
  (IF HasItems(grant_data, "title") THEN <<S_H1 \o grant_data.title>>
   ELSE <<S_DefaultTitle>>)
  \o (IF HasItems(grant_data, "overview")
      THEN <<S_Panoramica \o truncate_text(grant_data.overview, 500)>> ELSE <<>>)
  \o CategoryParts(grant_data, "documentation", S_DocumentazioneRichiesta)
  \o CategoryParts(grant_data, "requirements", S_Requisiti)
  \o CategoryParts(grant_data, "eligibility", S_BeneficiariAmmissibili)
  \o CategoryParts(grant_data, "deadlines", S_Scadenze)
  \o CategoryParts(grant_data, "funding", S_Finanziamento)
  \o (IF HasItems(grant_data, "lists") THEN ListParts(grant_data.lists) ELSE <<>>)
  \o (IF HasItems(grant_data, "sections") THEN SectionParts(grant_data.sections) ELSE <<>>)
  \o (IF HasItems(grant_data, "pdf_sources")
      THEN <<S_FontiPdf>> \o SourceLines(grant_data.pdf_sources) ELSE <<>>)
  \o <<S_UltimoAggiornamento \o timestamp \o S_Underscore>>

(* lines 288-367: the parts appended to summary_parts, in order *)
SummaryParts(grant_data, timestamp) ==
  (IF HasItems(grant_data, "title") THEN <<S_H1 \o grant_data.title>>
   ELSE <<S_DefaultTitle>>)
  \o (IF HasItems(grant_data, "overview")
      THEN <<S_Panoramica \o truncate_text(grant_data.overview, 500)>> ELSE <<>>)
  \o CategoryParts(grant_data, "documentation", S_DocumentazioneRichiesta)
  \o CategoryParts(grant_data, "requirements", S_Requisiti)
  \o CategoryParts(grant_data, "eligibility", S_BeneficiariAmmissibili)
  \o CategoryParts(grant_data, "funding", S_Finanziamento)
  \o CategoryParts(grant_data, "deadlines", S_Scadenze)
  \o (IF HasItems(grant_data, "lists") THEN ListParts(grant_data.lists) ELSE <<>>)
  \o (IF HasItems(grant_data, "sections") THEN SectionParts(grant_data.sections) ELSE <<>>)
  \o (IF HasItems(grant_data, "pdf_sources")
      THEN <<S_FontiPdf>> \o SourceLines(grant_data.pdf_sources) ELSE <<>>)
  \o <<S_UltimoAggiornamento \o timestamp \o S_Underscore>>

(* lines 285-286: `not grant_data` is true of the dict with no keys only *)
generate_summary(grant_data, timestamp) ==
  IF DOMAIN grant_data = {} THEN S_Sentinel
  ELSE JoinLines(SummaryParts(grant_data, timestamp))

(***************************************************************************)
(* The lists of the input records that merge_grant_data changes: a record's *)
(* list stored under a new title is the list object later appends extend.  *)
(***************************************************************************)
WebAfterMerge(web, pdf) ==
  LET st == MergeFolded(web, pdf)
      Aliased(i, j) ==
        /\ DictHas(st.alias, web[i].lists[j].k)
        /\ DictGet(st.alias, web[i].lists[j].k) = [src |-> "web", rec |-> i, idx |-> j]
  IN  [i \in DOMAIN web |->
         IF "lists" \in DOMAIN web[i]
         THEN [web[i] EXCEPT !.lists =
                 [j \in DOMAIN web[i].lists |->
                    IF Aliased(i, j)
                    THEN [k |-> web[i].lists[j].k,
                          v |-> DictGet(st.md.lists, web[i].lists[j].k)]
                    ELSE web[i].lists[j]]]
         ELSE web[i]]

PdfAfterMerge(web, pdf) ==
  LET st == MergeFolded(web, pdf)
      Aliased(i, j) ==
        /\ DictHas(st.alias, PdfListTitle(pdf[i]))
        /\ DictGet(st.alias, PdfListTitle(pdf[i])) = [src |-> "pdf", rec |-> i, idx |-> j]
  IN  [i \in DOMAIN pdf |->
         IF "lists" \in DOMAIN pdf[i]
         THEN [pdf[i] EXCEPT !.lists =
                 [j \in DOMAIN pdf[i].lists |->
                    IF Aliased(i, j) THEN DictGet(st.md.lists, PdfListTitle(pdf[i]))
                    ELSE pdf[i].lists[j]]]
         ELSE pdf[i]]

(***************************************************************************)
(* Bounds and input universes of the pipeline                              *)
(***************************************************************************)
MaxWeb == 2

MaxPdf == 2

(* records as WebScraper.extract_grant_information shapes them *)
WebRecord(title, url, main_content, structured_info, lists, tables) ==
  [title |-> title, url |-> url, main_content |-> main_content,
   structured_info |-> structured_info, lists |-> lists, tables |-> tables]

Web_Ricerca ==
  WebRecord(Title_BandoRicerca, Url_Page1, V_Generico,
            <<[k |-> K_Documentazione, v |-> ListVal(<<I_VisuraCamerale, I_Bilanci3>>)]>>,
            <<[k |-> K_Documenti, v |-> <<I_CV, I_Visura>>]>>,
            <<>>)

Web_A ==
  WebRecord(Title_BandoA, Url_Page2, V_Misura,
            <<[k |-> K_Documenti, v |-> StrVal(I_CV)],
              [k |-> K_AllegatiObbligatori, v |-> StrVal(I_Bilancio)],
              [k |-> K_Informazioni, v |-> StrVal(V_Generico)],
              [k |-> K_Misura, v |-> ListVal(<<V_Misura>>)]>>,
            <<[k |-> K_Documenti, v |-> <<I_Visura, I_Bilancio>>]>>,
            <<[k |-> K_Spese, v |-> <<Row_1>>]>>)

Web_Lungo ==
  WebRecord(Title_BandoRicercaLungo, Url_Page2, EmptyStr,
            <<[k |-> K_Documenti, v |-> StrVal(I_CV)],
              [k |-> K_Scadenza, v |-> StrVal(V_RequisitiEntro)],
              [k |-> K_Documentazione, v |-> ListVal(<<I_VisuraCamerale, I_CV>>)]>>,
            <<>>,
            <<>>)

(* a page that yields nothing: no <title>, no text, no headings, no lists *)
Web_Empty == WebRecord(NoneStr, Url_Page1, EmptyStr, <<>>, <<>>, <<>>)

(* a page with a title as long as Web_A's and one list that names an item *)
(* twice, as a <ul> with two equal <li> yields                             *)
Web_B ==
  WebRecord(Title_BandoB, Url_Page2, EmptyStr, <<>>,
            <<[k |-> K_Documenti, v |-> <<I_CV, I_CV>>]>>, <<>>)

WebRecords == {Web_Ricerca, Web_A, Web_Lungo, Web_Empty, Web_B}

(* records as PDFProcessor.process_pdf shapes them; `buckets` holds the     *)
(* term-anchored snippet lists, stored in the record under term.capitalize() *)
PdfRecord(context, sections, lists, buckets, source, filename) ==
  [context |-> context, main_content |-> V_Generico, sections |-> sections,
   lists |-> lists, tables |-> <<>>, buckets |-> buckets,
   source |-> source, filename |-> filename, is_priority |-> FALSE]

Pdf_Modulistica ==
  PdfRecord(Ctx_Modulistica,
            <<[k |-> K_Documenti, v |-> StrVal(I_ModuloA1)]>>,
            <<>>,
            <<[k |-> K_Scadenza, v |-> <<V_SCADENZA>>]>>,
            Url_A_Modulo, File_Modulo)

Pdf_NoContext ==
  PdfRecord(EmptyStr,
            <<[k |-> K_Note, v |-> StrVal(V_Generico)],
              [k |-> K_Spese, v |-> StrVal(V_Euro)]>>,
            << <<I_Visura, I_Bilancio>>, <<I_Bilancio, I_CV>> >>,
            <<[k |-> K_Spese, v |-> <<V_Euro>>],
              [k |-> K_Documentazione, v |-> <<V_AllegatiTermine>>]>>,
            Url_A_Avviso, File_Avviso)

Pdf_Documenti ==
  PdfRecord(K_Documenti,
            <<[k |-> K_Documentazione, v |-> StrVal(I_Visura)]>>,
            << <<I_Bilancio, I_ModuloA1>> >>,
            <<>>,
            Url_B_Modulo, File_Modulo)

(* a document reached through a link whose context has 100 characters *)
Pdf_LongContext == PdfRecord(Ctx_Long, <<>>, <<>>, <<>>, Url_B_Modulo, File_Modulo)

PdfRecords == {Pdf_Modulistica, Pdf_NoContext, Pdf_Documenti, Pdf_LongContext}

Timestamps == {Time_1, Time_2}

(***************************************************************************)
(* process_grant: collect the records, merge them, render the summary      *)
(***************************************************************************)
(* the parts of the state a specification does not use stay as they are here *)
CoreIdle ==
  /\ pc = "idle"
  /\ web_data = <<>>
  /\ pdf_data = <<>>
  /\ merged_data = EmptyDict
  /\ documentation_summary = EmptyStr

CatIdle ==
  /\ key = EmptyStr
  /\ values = <<>>
  /\ category = None

PoolIdle ==
  /\ pdf_url = <<>>
  /\ wpc = <<>>
  /\ offset = <<>>
  /\ fs = <<>>
  /\ pdf_text = <<>>

RetryIdle ==
  /\ fn = None
  /\ attempt_number = 0
  /\ rstate = "idle"
  /\ outcomes = <<>>
  /\ completed = <<>>

MainIdle ==
  /\ futures = <<>>
  /\ handled = {}
  /\ processed_grants = <<>>
  /\ update_calls = <<>>
  /\ mpc = "idle"

GrantIdle ==
  /\ link = 0
  /\ html_content = None
  /\ pdf_links = <<>>
  /\ link_idx = 0
  /\ processed = 0
  /\ last_pdf_result = EmptyDict
  /\ printed_len = 0

UtilIdle ==
  /\ func = None
  /\ arg_items = <<>>
  /\ arg_text = EmptyStr
  /\ arg_limit = 0
  /\ returned = <<>>
  /\ calls = 0

ExtractIdle ==
  /\ epc = "idle"
  /\ page = <<>>
  /\ page_info = <<>>
  /\ term_idx = 0

UpdateIdle ==
  /\ upc = "idle"
  /\ upd_attempt = 0
  /\ db_calls = <<>>

DocIdle ==
  /\ tpc = "idle"
  /\ raw_pdf_text = <<>>
  /\ norm_pdf_text = <<>>
  /\ pdf_content = EmptyDict

RunIdle ==
  /\ rpc = "idle"
  /\ args = EmptyDict
  /\ bandi = <<>>
  /\ grants = <<>>
  /\ submitted = <<>>

Init ==
  /\ pc = "collect"
  /\ web_data = <<>>
  /\ pdf_data = <<>>
  /\ merged_data = EmptyDict
  /\ documentation_summary = EmptyStr
  /\ CatIdle
  /\ PoolIdle
  /\ RetryIdle
  /\ MainIdle
  /\ GrantIdle
  /\ UtilIdle
  /\ ExtractIdle
  /\ UpdateIdle
  /\ DocIdle
  /\ RunIdle

(* main.py lines 53-55 and 88-90: web_data.append(web_info) *)
AppendWeb ==
  /\ pc = "collect"
  /\ Len(web_data) < MaxWeb
  /\ \E web_info \in WebRecords : web_data' = Append(web_data, web_info)
  /\ UNCHANGED <<pc, pdf_data, merged_data, documentation_summary>>
  /\ UNCHANGED <<cat_vars, pool_vars, retry_vars, main_vars, grant_vars, util_vars, extract_vars, update_vars, doc_vars, run_vars>>

(* main.py lines 63-65, 74-76, 99-101, 116-118: pdf_data.append(pdf_result) *)
AppendPdf ==
  /\ pc = "collect"
  /\ Len(pdf_data) < MaxPdf
  /\ \E pdf_result \in PdfRecords : pdf_data' = Append(pdf_data, pdf_result)
  /\ UNCHANGED <<pc, web_data, merged_data, documentation_summary>>
  /\ UNCHANGED <<cat_vars, pool_vars, retry_vars, main_vars, grant_vars, util_vars, extract_vars, update_vars, doc_vars, run_vars>>

(* main.py line 130 *)
MergeGrantData ==
  /\ pc = "collect"
  /\ merged_data' = merge_grant_data(web_data, pdf_data)
  /\ web_data' = WebAfterMerge(web_data, pdf_data)
  /\ pdf_data' = PdfAfterMerge(web_data, pdf_data)
  /\ pc' = "merged"
  /\ UNCHANGED documentation_summary
  /\ UNCHANGED <<cat_vars, pool_vars, retry_vars, main_vars, grant_vars, util_vars, extract_vars, update_vars, doc_vars, run_vars>>

(* main.py lines 133-136 *)
GenerateSummary ==
  /\ pc = "merged"
  /\ \E timestamp \in Timestamps :
       documentation_summary' = generate_summary(merged_data, timestamp)
  /\ pc' = "done"
  /\ UNCHANGED <<web_data, pdf_data, merged_data>>
  /\ UNCHANGED <<cat_vars, pool_vars, retry_vars, main_vars, grant_vars, util_vars, extract_vars, update_vars, doc_vars, run_vars>>

Next == AppendWeb \/ AppendPdf \/ MergeGrantData \/ GenerateSummary

Spec == Init /\ [][Next]_vars

(***************************************************************************)
(* Bounds and input universes of the categorizer                           *)
(***************************************************************************)
MaxValues == 2

Keys ==
  {K_AllegatiObbligatori, K_RequisitiScadenze, K_TerminiBeneficiari,
   K_DestinatariContributo, K_Spese, K_DOCUMENTI, K_Note, K_Misura,
   K_Scadenza, K_Documentazione, K_Bando, K_Documenti}

Contents ==
  {V_Euro, V_RequisitiEntro, V_AllegatiTermine, V_RichiestoDestinatari,
   V_EligibleBudget, V_Generico, V_Misura, V_SCADENZA, V_entro, V_il30,
   V_Tempistiche, V_SpeseSostenute, V_Eligibilita}

SeqsUpTo(S, n) == UNION {[1..m -> S] : m \in 0..n}

(***************************************************************************)
(* The categorizer applied to one (key, values) pair                       *)
(***************************************************************************)
CatInit ==
  /\ key \in Keys
  /\ values \in SeqsUpTo(Contents, MaxValues)
  /\ category = "pending"
  /\ CoreIdle
  /\ PoolIdle
  /\ RetryIdle
  /\ MainIdle
  /\ GrantIdle
  /\ UtilIdle
  /\ ExtractIdle
  /\ UpdateIdle
  /\ DocIdle
  /\ RunIdle

Categorize ==
  /\ category = "pending"
  /\ category' = categorize_information(key, values)
  /\ UNCHANGED <<key, values>>
  /\ UNCHANGED <<core_vars, pool_vars, retry_vars, main_vars, grant_vars, util_vars, extract_vars, update_vars, doc_vars, run_vars>>

CatNext == Categorize

CatSpec == CatInit /\ [][CatNext]_vars

(***************************************************************************)
(* Vocabulary of the properties                                            *)
(***************************************************************************)
Merged == pc \in {"merged", "done"} /\ DOMAIN merged_data # {}

NoDuplicates(s) == \A i, j \in DOMAIN s : s[i] = s[j] => i = j

FirstIndex(s, x) == CHOOSE i \in DOMAIN s : s[i] = x /\ \A j \in DOMAIN s : s[j] = x => i <= j

(* the strings a section value holds *)
ItemsOf(v) == IF IsList(v) THEN v.list ELSE <<v.str>>

(* the rule chains of the categorizer as ordered lists of (category, terms) *)
KeyFamilies ==
  <<[cat |-> "documentation", terms |-> KeyDocumentation],
    [cat |-> "requirements", terms |-> KeyRequirements],
    [cat |-> "deadlines", terms |-> KeyDeadlines],
    [cat |-> "eligibility", terms |-> KeyEligibility],
    [cat |-> "funding", terms |-> KeyFunding]>>

ContentFamilies ==
  <<[cat |-> "documentation", terms |-> ContentDocumentation],
    [cat |-> "deadlines", terms |-> ContentDeadlines],
    [cat |-> "requirements", terms |-> ContentRequirements],
    [cat |-> "eligibility", terms |-> ContentEligibility],
    [cat |-> "funding", terms |-> ContentFunding]>>

(* family i of the chain is the first one with a term in text *)
FirstMatch(families, text, i) ==
  /\ ContainsAny(text, families[i].terms)
  /\ \A j \in 1..(i - 1) : ~ContainsAny(text, families[j].terms)

NoMatch(families, text) ==
  \A i \in DOMAIN families : ~ContainsAny(text, families[i].terms)

(* the sections a record writes into the working mapping, and the records  *)
(* by rank: web records 1..Len(web_data), then the PDF records             *)
RecordSections(r) ==
  IF r <= Len(web_data) THEN web_data[r].structured_info
  ELSE pdf_data[r - Len(web_data)].sections

Ranks == 1..(Len(web_data) + Len(pdf_data))

Writers(k) == {r \in Ranks : DictHas(RecordSections(r), k)}

SetMin(S) == CHOOSE x \in S : \A y \in S : x <= y

SetMax(S) == CHOOSE x \in S : \A y \in S : y <= x

FirstWriter(k) == SetMin(Writers(k))

LastWriter(k) == SetMax(Writers(k))

WrittenKeys ==
  UNION {{RecordSections(r)[i].k : i \in DOMAIN RecordSections(r)} : r \in Ranks}

(***************************************************************************)
(* C1.  generate_summary applied to a fully empty unified record returns   *)
(* the sentinel 'Nessuna documentazione necessaria specificata.': both for *)
(* the empty mapping merge_grant_data returns when it is given no records  *)
(* and for a record whose title, overview, sections, lists, the five       *)
(* category sequences and pdf_sources are all empty.                       *)
(***************************************************************************)
FullyEmpty(md) ==
  \/ DOMAIN md = {}
  \/ /\ Len(md.title) = 0
     /\ Len(md.overview) = 0
     /\ Len(md.sections) = 0
     /\ Len(md.lists) = 0
     /\ \A i \in DOMAIN Categories : Len(md[Categories[i]]) = 0
     /\ Len(md.pdf_sources) = 0

C1_SentinelForEmptyRecord ==
  (pc = "done" /\ FullyEmpty(merged_data))
    => (documentation_summary = S_Sentinel /\ Len(documentation_summary) > 0)

C1_WitnessEmptyFields ==
  /\ pc = "done"
  /\ DOMAIN merged_data # {}
  /\ FullyEmpty(merged_data)

(***************************************************************************)
(* C2.  _categorize_information evaluates the key rules in the order       *)
(* documentation, requirements, deadlines, eligibility, funding and        *)
(* returns the category of the first family with a term in the lowercase   *)
(* key, whatever the values; "Allegati obbligatori" yields documentation.  *)
(***************************************************************************)
C2_KeyRulePrecedence ==
  category # "pending" =>
    /\ \A i \in DOMAIN KeyFamilies :
         FirstMatch(KeyFamilies, Lower(key), i) => category = KeyFamilies[i].cat
    /\ key = K_AllegatiObbligatori => category = "documentation"

C2_WitnessBothFamilies ==
  /\ category = "documentation"
  /\ key = K_AllegatiObbligatori
  /\ ContainsAny(Lower(key), KeyRequirements)
  /\ Len(values) > 0

(***************************************************************************)
(* C3.  When the lowercase key matches no key rule, the values are joined  *)
(* with spaces and the first content family that matches in the order      *)
(* documentation, deadlines, requirements, eligibility, funding is         *)
(* returned ("Note" with "Il contributo e' di 5000 euro" yields funding);  *)
(* when neither key nor content matches the result is None.                *)
(***************************************************************************)
C3_ContentFallback ==
  (category # "pending" /\ NoMatch(KeyFamilies, Lower(key))) =>
    LET text_lower == Lower(Join(values))
    IN  /\ \A i \in DOMAIN ContentFamilies :
             FirstMatch(ContentFamilies, text_lower, i)
               => category = ContentFamilies[i].cat
        /\ NoMatch(ContentFamilies, text_lower) => category = None
        /\ (key = K_Note /\ values = <<V_Euro>>) => category = "funding"

C3_WitnessDeadlinesBeforeRequirements ==
  /\ category = "deadlines"
  /\ NoMatch(KeyFamilies, Lower(key))
  /\ ContainsAny(Lower(Join(values)), ContentRequirements)
  /\ ContainsAny(Lower(Join(values)), ContentDeadlines)

(***************************************************************************)
(* C4.  As claimed: in every per-category sequence of the unified record,  *)
(* items contributed by web records precede items contributed by PDF       *)
(* records and, within each group, items appear in the input order of the  *)
(* records that contributed them.                                          *)
(*                                                                         *)
(* A record contributes the items of the section values it is the last to  *)
(* write; the position of those items is that of the key, which the first  *)
(* record to write it fixed.  C4_FirstWriterOrder states the order the     *)
(* code keeps: items follow the rank of the record that first wrote their  *)
(* section key (web records before PDF records, each in input order); and  *)
(* the web items "Visura camerale", "Bilanci ultimi 3 anni" and the PDF    *)
(* item "Modulo A1" are rendered under '## Documentazione Richiesta' in    *)
(* that order.                                                             *)
(***************************************************************************)
(* the value the drain finds under key k, and the category it goes to *)
FinalValue(k) == DictGet(RecordSections(LastWriter(k)), k)

FinalCategory(k) == categorize_information(k, ItemsOf(FinalValue(k)))

(* the keys whose final value puts item x into category cat *)
KeysOf(cat, x) ==
  {k \in WrittenKeys : FinalCategory(k) = cat /\ InSeq(x, ItemsOf(FinalValue(k)))}

(* the earliest record that contributed x, and the earliest first writer   *)
ContributorRank(cat, x) == SetMin({LastWriter(k) : k \in KeysOf(cat, x)})

FirstWriterRank(cat, x) == SetMin({FirstWriter(k) : k \in KeysOf(cat, x)})

C4_ContributorOrder ==
  Merged =>
    \A c \in DOMAIN Categories :
      LET items == merged_data[Categories[c]]
      IN  \A p, q \in DOMAIN items :
            p < q => /\ KeysOf(Categories[c], items[p]) # {}
                     /\ KeysOf(Categories[c], items[q]) # {}
                     /\ ContributorRank(Categories[c], items[p])
                          <= ContributorRank(Categories[c], items[q])

S_ExampleDocumentazione ==
  S_DocumentazioneRichiesta \o S_Newline \o S_Bullet \o I_VisuraCamerale
    \o S_Newline \o S_Bullet \o I_Bilanci3 \o S_Newline \o S_Bullet \o I_ModuloA1
    \o S_Newline

C4_FirstWriterOrder ==
  /\ Merged =>
       \A c \in DOMAIN Categories :
         LET items == merged_data[Categories[c]]
         IN  \A rank \in {[p \in DOMAIN items |->
                             IF KeysOf(Categories[c], items[p]) = {} THEN 0
                             ELSE FirstWriterRank(Categories[c], items[p])]} :
               \A p, q \in DOMAIN items :
                 p < q => (rank[p] > 0 /\ rank[q] > 0 /\ rank[p] <= rank[q])
  /\ (pc = "done" /\ web_data = <<Web_Ricerca>> /\ pdf_data = <<Pdf_Modulistica>>)
       => Contains(documentation_summary, S_H1 \o Title_BandoRicerca \o S_Newline)
            /\ Contains(documentation_summary, S_ExampleDocumentazione)

(* a PDF record overwrote a web key: its item precedes a web item *)
C4_WitnessPdfItemFirst ==
  /\ Merged
  /\ \E p, q \in DOMAIN merged_data.documentation :
       /\ p < q
       /\ ContributorRank("documentation", merged_data.documentation[p]) > Len(web_data)
       /\ ContributorRank("documentation", merged_data.documentation[q]) <= Len(web_data)

(***************************************************************************)
(* C5.  After merge_grant_data returns for a non-empty input, each of the  *)
(* five category sequences contains no string twice, and the kept items    *)
(* are in the order of their first occurrence before deduplication.        *)
(***************************************************************************)
C5_DedupFirstSeen ==
  Merged =>
    \A undeduped \in {MergeUndeduped(web_data, pdf_data)} :
    \A c \in DOMAIN Categories :
      LET before == undeduped[Categories[c]]
          after == merged_data[Categories[c]]
      IN  /\ NoDuplicates(after)
          /\ \A i \in DOMAIN before : InSeq(before[i], after)
          /\ \A i \in DOMAIN after : InSeq(after[i], before)
          /\ \A p, q \in DOMAIN after :
               p < q => FirstIndex(before, after[p]) < FirstIndex(before, after[q])

C5_WitnessRepeatedItem ==
  /\ Merged
  /\ \E undeduped \in {MergeUndeduped(web_data, pdf_data)} :
     \E c \in DOMAIN Categories :
       LET before == undeduped[Categories[c]]
       IN  \E i, j, l \in DOMAIN before :
             i < j /\ j < l /\ before[i] = before[l] /\ before[i] # before[j]

(***************************************************************************)
(* C6.  When two sources contribute a list under the same title,           *)
(* merge_grant_data yields for that title the union of their items in      *)
(* first-seen order with no item of the second source repeated:            *)
(* ["CV","Visura"] and ["Visura","Bilancio"] under "Documenti" yield       *)
(* ["CV","Visura","Bilancio"].  Stated of the merge step, from the records *)
(* as they are before it.                                                  *)
(***************************************************************************)
(* the lists the records contribute under title t: web records first *)
RECURSIVE WebContributions(_, _)
WebContributions(web, t) ==
  IF Len(web) = 0 THEN <<>>
  ELSE (IF DictHas(web[1].lists, t) THEN <<DictGet(web[1].lists, t)>> ELSE <<>>)
       \o WebContributions(Tail(web), t)

RECURSIVE PdfContributions(_, _)
PdfContributions(pdf, t) ==
  IF Len(pdf) = 0 THEN <<>>
  ELSE (IF PdfListTitle(pdf[1]) = t THEN pdf[1].lists ELSE <<>>)
       \o PdfContributions(Tail(pdf), t)

Contributions(web, pdf, t) == WebContributions(web, t) \o PdfContributions(pdf, t)

(* the items of `second` that `first` lacks, each once, in order of appearance *)
NewItems(first, second) ==
  LET keep == {i \in DOMAIN second :
                 /\ ~InSeq(second[i], first)
                 /\ \A j \in 1..(i - 1) : second[j] # second[i]}
      Pick[n \in 0..Len(second)] ==
        IF n = 0 THEN <<>>
        ELSE IF n \in keep THEN Append(Pick[n - 1], second[n]) ELSE Pick[n - 1]
  IN  Pick[Len(second)]

C6_ListUnionFirstSeen ==
  [][(pc = "collect" /\ pc' = "merged" /\ DOMAIN merged_data' # {}) =>
       /\ \A i \in DOMAIN merged_data'.lists :
            LET t == merged_data'.lists[i].k
                from == Contributions(web_data, pdf_data, t)
            IN  Len(from) = 2 =>
                  merged_data'.lists[i].v = from[1] \o NewItems(from[1], from[2])
       /\ (Len(web_data) = 2 /\ Len(pdf_data) = 0
             /\ DictHas(web_data[1].lists, K_Documenti)
             /\ DictHas(web_data[2].lists, K_Documenti)
             /\ DictGet(web_data[1].lists, K_Documenti) = <<I_CV, I_Visura>>
             /\ DictGet(web_data[2].lists, K_Documenti) = <<I_Visura, I_Bilancio>>)
            => DictGet(merged_data'.lists, K_Documenti) = <<I_CV, I_Visura, I_Bilancio>>
    ]_vars

C6_WitnessDocumenti ==
  /\ pc = "merged"
  /\ Len(web_data) = 2
  /\ Len(pdf_data) = 0
  /\ web_data[2].lists = <<[k |-> K_Documenti, v |-> <<I_Visura, I_Bilancio>>]>>
  /\ DictHas(merged_data.lists, K_Documenti)
  /\ DictGet(merged_data.lists, K_Documenti) = <<I_CV, I_Visura, I_Bilancio>>

(***************************************************************************)
(* C7.  During the final drain every (key, value) entry of the working     *)
(* section mapping is either appended to the category sequence the         *)
(* categorizer selects or, when it is uncategorized, retained under        *)
(* 'sections'; for list-valued entries as well as scalar ones.             *)
(***************************************************************************)
C7_NoEntryDropped ==
  Merged =>
    LET all_sections == AllSections(web_data, pdf_data)
    IN  \A i \in DOMAIN all_sections :
          LET e == all_sections[i]
              cat == categorize_information(e.k, ItemsOf(e.v))
          IN  IF cat # None
              THEN \A j \in DOMAIN ItemsOf(e.v) : InSeq(ItemsOf(e.v)[j], merged_data[cat])
              ELSE DictHas(merged_data.sections, e.k)

C7_WitnessListEntryDropped ==
  /\ Merged
  /\ \E i \in DOMAIN AllSections(web_data, pdf_data) :
       LET e == AllSections(web_data, pdf_data)[i]
       IN  /\ IsList(e.v)
           /\ categorize_information(e.k, e.v.list) = None
           /\ ~DictHas(merged_data.sections, e.k)

(***************************************************************************)
(* C8.  For every PDF record folded in, each term-anchored snippet bucket  *)
(* (stored under the capitalized vocabulary term) whose key belongs to the *)
(* interesting keyword family is passed through the categorizer and its    *)
(* snippets are appended to the matching category sequence.                *)
(***************************************************************************)
C8_PdfBucketsRouted ==
  Merged =>
    \A r \in DOMAIN pdf_data :
      \A b \in DOMAIN pdf_data[r].buckets :
        LET bucket == pdf_data[r].buckets[b]
            cat == categorize_information(bucket.k, bucket.v)
        IN  (ContainsAny(Lower(bucket.k), search_terms) /\ cat # None)
              => \A j \in DOMAIN bucket.v : InSeq(bucket.v[j], merged_data[cat])

C8_WitnessBucketIgnored ==
  /\ Merged
  /\ \E r \in DOMAIN pdf_data :
       /\ DictHas(pdf_data[r].buckets, K_Scadenza)
       /\ ~InSeq(V_SCADENZA, merged_data.deadlines)

(***************************************************************************)
(* The worker pool of main(): every worker runs process_grant, and within  *)
(* it PDFProcessor.process_pdf, on its own objects; the files under        *)
(* config.PDF_DOWNLOAD_DIR belong to the process.                          *)
(***************************************************************************)
(* "downloads/pdfs" *)
PDF_DOWNLOAD_DIR ==
  <<"d", "o", "w", "n", "l", "o", "a", "d", "s", "/", "p", "d", "f", "s">>
(* ".pdf" *)
S_DotPdf ==
  <<".", "p", "d", "f">>
(* "unnamed_file" *)
S_UnnamedFile ==
  <<"u", "n", "n", "a", "m", "e", "d", "_", "f", "i", "l", "e">>

NumWorkers == 2

NumChunks == 2

Workers == 1..NumWorkers

(* os.path.basename: what follows the last "/" *)
Basename(path) == SubSeq(path, RFind(path, "/") + 2, Len(path))

(* str.endswith *)
EndsWith(s, suffix) ==
  Len(s) >= Len(suffix) /\ SubSeq(s, Len(s) - Len(suffix) + 1, Len(s)) = suffix

ValidChars ==
  {"-", "_", ".", "(", ")", " "} \cup Digits
    \cup {UpperChars[i] : i \in 1..26} \cup {LowerChars[i] : i \in 1..26}

(* os.path.splitext: the extension starts at the last dot, unless the name  *)
(* only has leading dots                                                   *)
SplitExtAt(name) ==
  LET dot == RFind(name, ".")
  IN  IF dot > 0 /\ \E i \in 1..dot : name[i] # "." THEN dot ELSE Len(name)

(* utils.sanitize_filename *)
sanitize_filename(filename) ==
  LET kept == SelectSeq(filename, LAMBDA c : c \in ValidChars)
      sanitized == [i \in 1..Len(kept) |-> IF kept[i] = " " THEN "_" ELSE kept[i]]
      cut == IF Len(sanitized) > 255
             THEN LET at == SplitExtAt(sanitized)
                      ext == SubSeq(sanitized, at + 1, Len(sanitized))
                  IN  SubSeq(sanitized, 1, Min(at, 255 - Len(ext))) \o ext
             ELSE sanitized
  IN  IF Len(cut) = 0 THEN S_UnnamedFile ELSE cut

(* download_pdf lines 65-70: the path the download is saved to *)
DownloadPath(u) ==
  LET name == sanitize_filename(Basename(u))
      filename == IF EndsWith(Lower(name), S_DotPdf) THEN name ELSE name \o S_DotPdf
  IN  PDF_DOWNLOAD_DIR \o <<"/">> \o filename

PoolUrls == {Url_A_Modulo, Url_B_Modulo, Url_A_Avviso}

Paths == {DownloadPath(u) : u \in PoolUrls}

(* the chunks response.iter_content yields for a URL: each server's own bytes *)
Chunk(u, n) == [of |-> u, part |-> n]

Body(u) == [n \in 1..NumChunks |-> Chunk(u, n)]

(* the bytes a write past the end of a truncated file leaves in between *)
Hole == [of |-> EmptyStr, part |-> 0]

(* f.write(chunk) through a file object whose position is `at` chunks *)
WriteAt(content, at, chunk) ==
  IF at < Len(content) THEN [content EXCEPT ![at + 1] = chunk]
  ELSE content \o [i \in 1..(at - Len(content)) |-> Hole] \o <<chunk>>

PoolInit ==
  /\ pdf_url \in [Workers -> PoolUrls]
  /\ wpc = [w \in Workers |-> "start"]
  /\ offset = [w \in Workers |-> 0]
  /\ fs = [p \in Paths |-> <<>>]
  /\ pdf_text = [w \in Workers |-> <<>>]
  /\ CoreIdle
  /\ CatIdle
  /\ RetryIdle
  /\ MainIdle
  /\ GrantIdle
  /\ UtilIdle
  /\ ExtractIdle
  /\ UpdateIdle
  /\ DocIdle
  /\ RunIdle

(* download_pdf lines 46-71: the request succeeds and open(filepath, 'wb')  *)
(* creates or truncates the file                                           *)
DownloadOpen(w) ==
  /\ wpc[w] = "start"
  /\ fs' = [fs EXCEPT ![DownloadPath(pdf_url[w])] = <<>>]
  /\ offset' = [offset EXCEPT ![w] = 0]
  /\ wpc' = [wpc EXCEPT ![w] = "writing"]
  /\ UNCHANGED <<pdf_url, pdf_text>>
  /\ UNCHANGED <<core_vars, cat_vars, retry_vars, main_vars, grant_vars, util_vars, extract_vars, update_vars, doc_vars, run_vars>>

(* download_pdf lines 50-58 and 77-82: not a PDF, too large or an error:    *)
(* None is returned and process_pdf returns {}                             *)
DownloadNone(w) ==
  /\ wpc[w] = "start"
  /\ wpc' = [wpc EXCEPT ![w] = "empty"]
  /\ UNCHANGED <<pdf_url, offset, fs, pdf_text>>
  /\ UNCHANGED <<core_vars, cat_vars, retry_vars, main_vars, grant_vars, util_vars, extract_vars, update_vars, doc_vars, run_vars>>

(* download_pdf lines 72-73: one chunk of this worker's response is written *)
WriteChunk(w) ==
  /\ wpc[w] = "writing"
  /\ offset[w] < NumChunks
  /\ fs' = [fs EXCEPT ![DownloadPath(pdf_url[w])] =
              WriteAt(@, offset[w], Chunk(pdf_url[w], offset[w] + 1))]
  /\ offset' = [offset EXCEPT ![w] = @ + 1]
  /\ UNCHANGED <<pdf_url, wpc, pdf_text>>
  /\ UNCHANGED <<core_vars, cat_vars, retry_vars, main_vars, grant_vars, util_vars, extract_vars, update_vars, doc_vars, run_vars>>

(* download_pdf lines 71-76: the with block ends and filepath is returned *)
DownloadClose(w) ==
  /\ wpc[w] = "writing"
  /\ offset[w] = NumChunks
  /\ wpc' = [wpc EXCEPT ![w] = "downloaded"]
  /\ UNCHANGED <<pdf_url, offset, fs, pdf_text>>
  /\ UNCHANGED <<core_vars, cat_vars, retry_vars, main_vars, grant_vars, util_vars, extract_vars, update_vars, doc_vars, run_vars>>

(* process_pdf lines 226-238: extract_text reads the file at pdf_path; the  *)
(* text stands for the bytes it was extracted from                         *)
ExtractText(w) ==
  /\ wpc[w] = "downloaded"
  /\ LET text == fs[DownloadPath(pdf_url[w])]
     IN  IF Len(text) = 0
         THEN /\ wpc' = [wpc EXCEPT ![w] = "empty"]
              /\ UNCHANGED pdf_text
         ELSE /\ wpc' = [wpc EXCEPT ![w] = "done"]
              /\ pdf_text' = [pdf_text EXCEPT ![w] = text]
  /\ UNCHANGED <<pdf_url, offset, fs>>
  /\ UNCHANGED <<core_vars, cat_vars, retry_vars, main_vars, grant_vars, util_vars, extract_vars, update_vars, doc_vars, run_vars>>

PoolNext ==
  \E w \in Workers :
    \/ DownloadOpen(w)
    \/ DownloadNone(w)
    \/ WriteChunk(w)
    \/ DownloadClose(w)
    \/ ExtractText(w)

PoolSpec == PoolInit /\ [][PoolNext]_vars

(***************************************************************************)
(* C9.  No state is shared between concurrent pipeline instances: under    *)
(* every interleaving, the text a pipeline extracts for a PDF URL is the   *)
(* content that same pipeline downloaded from that URL, also when two      *)
(* grants processed at the same time link PDFs whose URLs end in the same  *)
(* file name.                                                              *)
(***************************************************************************)
C9_PipelineReadsOwnDownload ==
  \A w \in Workers : wpc[w] = "done" => pdf_text[w] = Body(pdf_url[w])

C9_WitnessSameFileName ==
  \E w, v \in Workers :
    /\ w # v
    /\ pdf_url[w] # pdf_url[v]
    /\ DownloadPath(pdf_url[w]) = DownloadPath(pdf_url[v])
    /\ wpc[w] = "done"
    /\ wpc[v] = "done"

(***************************************************************************)
(* The network calls of process_grant: WebScraper.get_page_content and     *)
(* PDFProcessor.download_pdf, each under                                   *)
(*   @retry(stop=stop_after_attempt(config.MAX_RETRIES),                   *)
(*          wait=wait_exponential(multiplier=config.RETRY_BACKOFF))        *)
(* The wrapper calls the function again, after a wait, when the call       *)
(* raised; a call that returns, whatever it returns, ends the retrying.    *)
(***************************************************************************)
MAX_RETRIES == 5

MaxCalls == 2

RetriedFunctions == {"get_page_content", "download_pdf"}

(* what one attempt can meet *)
Outcomes(f) ==
  IF f = "get_page_content"
  THEN {"invalid_url", "html", "not_html", "request_exception", "other_exception"}
  ELSE {"not_pdf", "too_large", "saved", "request_exception", "other_exception"}

(* the exceptions the function body does not catch: get_page_content       *)
(* catches requests.exceptions.RequestException only, download_pdf catches *)
(* RequestException and then Exception                                     *)
Escapes(f, o) == f = "get_page_content" /\ o = "other_exception"

(* the value the function returns when outcome o does not escape *)
Returned(o) == IF o \in {"html", "saved"} THEN "content" ELSE None

RetryInit ==
  /\ RetryIdle
  /\ CoreIdle
  /\ CatIdle
  /\ PoolIdle
  /\ MainIdle
  /\ GrantIdle
  /\ UtilIdle
  /\ ExtractIdle
  /\ UpdateIdle
  /\ DocIdle
  /\ RunIdle

(* process_grant calls the wrapped function: tenacity starts at attempt 1 *)
StartCall ==
  /\ rstate = "idle"
  /\ Len(completed) < MaxCalls
  /\ fn' \in RetriedFunctions
  /\ attempt_number' = 1
  /\ outcomes' = <<>>
  /\ rstate' = "calling"
  /\ UNCHANGED completed
  /\ UNCHANGED <<core_vars, cat_vars, pool_vars, main_vars, grant_vars, util_vars, extract_vars, update_vars, doc_vars, run_vars>>

(* the attempt returns: the wrapper returns its value to process_grant *)
AttemptReturns ==
  /\ rstate = "calling"
  /\ \E o \in Outcomes(fn) :
       /\ ~Escapes(fn, o)
       /\ outcomes' = Append(outcomes, o)
  /\ rstate' = "returned"
  /\ UNCHANGED <<fn, attempt_number, completed>>
  /\ UNCHANGED <<core_vars, cat_vars, pool_vars, main_vars, grant_vars, util_vars, extract_vars, update_vars, doc_vars, run_vars>>

(* the attempt raises: stop_after_attempt decides between RetryError and a wait *)
AttemptRaises ==
  /\ rstate = "calling"
  /\ \E o \in Outcomes(fn) :
       /\ Escapes(fn, o)
       /\ outcomes' = Append(outcomes, o)
  /\ rstate' = IF attempt_number >= MAX_RETRIES THEN "raised" ELSE "sleeping"
  /\ UNCHANGED <<fn, attempt_number, completed>>
  /\ UNCHANGED <<core_vars, cat_vars, pool_vars, main_vars, grant_vars, util_vars, extract_vars, update_vars, doc_vars, run_vars>>

(* the wait of wait_exponential is over: the next attempt *)
Backoff ==
  /\ rstate = "sleeping"
  /\ attempt_number' = attempt_number + 1
  /\ rstate' = "calling"
  /\ UNCHANGED <<fn, outcomes, completed>>
  /\ UNCHANGED <<core_vars, cat_vars, pool_vars, main_vars, grant_vars, util_vars, extract_vars, update_vars, doc_vars, run_vars>>

(* process_grant goes on with the value: None means the source is unavailable *)
FinishCall ==
  /\ rstate = "returned"
  /\ completed' = Append(completed,
                         [fn |-> fn, attempts |-> attempt_number,
                          last |-> outcomes[Len(outcomes)],
                          result |-> Returned(outcomes[Len(outcomes)])])
  /\ rstate' = "idle"
  /\ UNCHANGED <<fn, attempt_number, outcomes>>
  /\ UNCHANGED <<core_vars, cat_vars, pool_vars, main_vars, grant_vars, util_vars, extract_vars, update_vars, doc_vars, run_vars>>

RetryNext == StartCall \/ AttemptReturns \/ AttemptRaises \/ Backoff \/ FinishCall

RetrySpec == RetryInit /\ [][RetryNext]_vars

(***************************************************************************)
(* C10.  A page fetch or PDF download that fails with a network error is   *)
(* retried: the request is attempted again after a backoff, up to          *)
(* config.MAX_RETRIES (5) attempts in total and never more, before the     *)
(* source is treated as unavailable.                                       *)
(***************************************************************************)
C10_NetworkErrorRetried ==
  /\ attempt_number <= MAX_RETRIES
  /\ \A i \in DOMAIN completed :
       (completed[i].result = None /\ completed[i].last = "request_exception")
         => completed[i].attempts = MAX_RETRIES

C10_WitnessNetworkError ==
  \E i \in DOMAIN completed :
    /\ completed[i].last = "request_exception"
    /\ completed[i].result = None
    /\ completed[i].attempts = 1

(***************************************************************************)
(* main: the grants are submitted to the pool, the results are collected   *)
(* as the futures complete, then the database is updated grant by grant.   *)
(*   for future in as_completed(future_to_grant):                          *)
(*       try: processed_grants.append(future.result())                     *)
(*       except Exception: logger.error(...)                               *)
(*   for grant in processed_grants:                                        *)
(*       try: db_manager.update_documentation(grant['id'], ...)            *)
(*       except Exception: logger.error(...); update_errors += 1           *)
(***************************************************************************)
NumGrants == 3

Grants == 1..NumGrants

(* what update_documentation can do: return True, return False, raise *)
UpdateOutcomes == {"true", "false", "raised"}

MainInit ==
  /\ futures = [g \in Grants |-> "pending"]
  /\ handled = {}
  /\ processed_grants = <<>>
  /\ update_calls = <<>>
  /\ mpc = "processing"
  /\ CoreIdle
  /\ CatIdle
  /\ PoolIdle
  /\ RetryIdle
  /\ GrantIdle
  /\ UtilIdle
  /\ ExtractIdle
  /\ UpdateIdle
  /\ DocIdle
  /\ RunIdle

(* a worker: process_grant(grant) returns the grant *)
ProcessGrantReturns(g) ==
  /\ mpc = "processing"
  /\ futures[g] = "pending"
  /\ futures' = [futures EXCEPT ![g] = "ok"]
  /\ UNCHANGED <<handled, processed_grants, update_calls, mpc>>
  /\ UNCHANGED <<core_vars, cat_vars, pool_vars, retry_vars, grant_vars, util_vars, extract_vars, update_vars, doc_vars, run_vars>>

(* a worker: process_grant(grant) raises; the future holds the exception *)
ProcessGrantRaises(g) ==
  /\ mpc = "processing"
  /\ futures[g] = "pending"
  /\ futures' = [futures EXCEPT ![g] = "raised"]
  /\ UNCHANGED <<handled, processed_grants, update_calls, mpc>>
  /\ UNCHANGED <<core_vars, cat_vars, pool_vars, retry_vars, grant_vars, util_vars, extract_vars, update_vars, doc_vars, run_vars>>

(* a bug: no try around future.result(), the exception leaves the loop and *)
(* the outer handler of main ends the run                                  *)
FutureResultNoTry(g) ==
  /\ mpc = "processing"
  /\ futures[g] # "pending"
  /\ g \notin handled
  /\ handled' = handled \cup {g}
  /\ IF futures[g] = "ok"
       THEN processed_grants' = Append(processed_grants, g) /\ UNCHANGED mpc
       ELSE mpc' = "finished" /\ UNCHANGED processed_grants
  /\ UNCHANGED <<futures, update_calls>>
  /\ UNCHANGED <<core_vars, cat_vars, pool_vars, retry_vars, grant_vars, util_vars, extract_vars, update_vars, doc_vars, run_vars>>

(* main.py lines 196-202: one iteration of the as_completed loop *)
FutureResult(g) ==
  /\ mpc = "processing"
  /\ futures[g] # "pending"
  /\ g \notin handled
  /\ handled' = handled \cup {g}
  /\ processed_grants' =
       IF futures[g] = "ok" THEN Append(processed_grants, g) ELSE processed_grants
  /\ UNCHANGED <<futures, update_calls, mpc>>
  /\ UNCHANGED <<core_vars, cat_vars, pool_vars, retry_vars, grant_vars, util_vars, extract_vars, update_vars, doc_vars, run_vars>>

(* main.py lines 204-208: every future was yielded, the with block ends *)
PoolDone ==
  /\ mpc = "processing"
  /\ handled = Grants
  /\ mpc' = "updating"
  /\ UNCHANGED <<futures, handled, processed_grants, update_calls>>
  /\ UNCHANGED <<core_vars, cat_vars, pool_vars, retry_vars, grant_vars, util_vars, extract_vars, update_vars, doc_vars, run_vars>>

(* main.py lines 209-217: one iteration of the update loop *)
UpdateDocumentation ==
  /\ mpc = "updating"
  /\ Len(update_calls) < Len(processed_grants)
  /\ \E outcome \in UpdateOutcomes :
       update_calls' =
         Append(update_calls,
                [id |-> processed_grants[Len(update_calls) + 1], outcome |-> outcome])
  /\ UNCHANGED <<futures, handled, processed_grants, mpc>>
  /\ UNCHANGED <<core_vars, cat_vars, pool_vars, retry_vars, grant_vars, util_vars, extract_vars, update_vars, doc_vars, run_vars>>

(* main.py lines 219-226: the update loop is over *)
MainFinished ==
  /\ mpc = "updating"
  /\ Len(update_calls) = Len(processed_grants)
  /\ mpc' = "finished"
  /\ UNCHANGED <<futures, handled, processed_grants, update_calls>>
  /\ UNCHANGED <<core_vars, cat_vars, pool_vars, retry_vars, grant_vars, util_vars, extract_vars, update_vars, doc_vars, run_vars>>

MainNext ==
  \/ \E g \in Grants : ProcessGrantReturns(g)
  \/ \E g \in Grants : ProcessGrantRaises(g)
  \/ \E g \in Grants : FutureResult(g)
  \/ PoolDone
  \/ UpdateDocumentation
  \/ MainFinished

MainSpec == MainInit /\ [][MainNext]_vars

(* updated_count and update_errors as main counts them (lines 207-217) *)
updated_count ==
  Cardinality({i \in DOMAIN update_calls : update_calls[i].outcome = "true"})

update_errors ==
  Cardinality({i \in DOMAIN update_calls : update_calls[i].outcome # "true"})

(* the calls of update_documentation made for grant g *)
UpdatesOf(g) == {i \in DOMAIN update_calls : update_calls[i].id = g}

(***************************************************************************)
(* C11.  If processing one grant raises, main records it and moves on:     *)
(* every other submitted grant is still processed and, when its processing *)
(* succeeds, passed to update_documentation (once), while the failed grant *)
(* is never passed to update_documentation; an exception raised while      *)
(* updating one grant does not prevent the update of the remaining grants. *)
(* main never stops before the end: until it is finished a step is enabled.*)
(***************************************************************************)
C11_FailedGrantSkipped ==
  /\ \A g \in Grants : UpdatesOf(g) # {} => futures[g] = "ok"
  /\ mpc # "finished" => ENABLED MainNext
  /\ mpc = "finished" =>
       /\ \A g \in Grants :
            /\ futures[g] = "ok" => Cardinality(UpdatesOf(g)) = 1
            /\ futures[g] = "raised" => UpdatesOf(g) = {}
            /\ futures[g] # "pending"
       /\ updated_count + update_errors = Len(processed_grants)

(* one grant failed, and an update raised before a later update was made *)
C11_WitnessFailureAndRaisedUpdate ==
  /\ mpc = "finished"
  /\ \E g \in Grants : futures[g] = "raised"
  /\ \E i, j \in DOMAIN update_calls :
       i < j /\ update_calls[i].outcome = "raised" /\ update_calls[j].outcome = "true"

(***************************************************************************)
(* process_grant, source by source (main.py lines 33-139): for each of the *)
(* two links the page is fetched, its record and PDF links are extracted,  *)
(* the priority PDFs are processed, then possibly the others; the records  *)
(* are merged and the summary is stored in the grant.                      *)
(***************************************************************************)
MaxLinks == 1

(* the number of priority links of the long list of links *)
MaxSameLinks == 4

(* a page that lists a non-priority link, then MaxSameLinks priority links, *)
(* then MaxSameLinks - 1 non-priority links                                 *)
LongLinks ==
  <<FALSE>> \o [i \in 1..MaxSameLinks |-> TRUE] \o [i \in 1..(MaxSameLinks - 1) |-> FALSE]

(* the lists of PDF links of a page, the priority flag of each link: up to *)
(* MaxLinks links on either page, and the long list on the secondary site, *)
(* whose two loops have the limits of lines 105 and 122                    *)
LinkLists(l) == SeqsUpTo(BOOLEAN, MaxLinks) \cup (IF l = 2 THEN {LongLinks} ELSE {})

(* the length of the printed records at which no more PDFs are needed: *)
(* main.py lines 68 and 109                                            *)
PrintedLimit == 5000

(* the lengths the printed records may have: nothing is printed of no    *)
(* record, and the records here abridge the text that makes the length   *)
(* of the others, which is under the limit or not                        *)
PrintedLens(data) == IF data = <<>> THEN {0} ELSE {PrintedLimit - 1, PrintedLimit}

(* lines 68 and 109: need_more_pdfs *)
NeedMore(data, len) == Len(data) = 0 \/ len < PrintedLimit

(* the limits of the PDF loops: main.py lines 79, 105 and 122 *)
PdfDataLimit == 5

PriorityLimit == 3

NonPriorityLimit == 3

(* a PDF record as the pipeline produces it: extract_text_from_pdf returns  *)
(* normalized text, which holds no line break, so process_pdf_content finds *)
(* no sections and no lists in it, only term buckets                        *)
Pdf_Pipeline ==
  PdfRecord(Ctx_Modulistica, <<>>, <<>>,
            <<[k |-> K_Scadenza, v |-> <<V_SCADENZA>>]>>,
            Url_A_Modulo, File_Modulo)

GrantWebRecords == {Web_Ricerca, Web_Empty}

(* str(e) of an exception caught in process_pdf: empty for an exception     *)
(* raised without arguments                                                *)
S_ErrorMessage == <<"o", "u", "t", " ", "o", "f", " ", "m", "e", "m", "o", "r", "y">>

ErrorMessages == {EmptyStr, S_ErrorMessage}

(* what one call of process_pdf can meet *)
PdfOutcomes == {"download_none", "text_none", "raises", "ok"}

(* PDFProcessor.process_pdf *)
process_pdf(is_priority, outcome, msg) ==
  CASE outcome = "download_none" -> EmptyDict
    [] outcome = "text_none" -> EmptyDict
    [] outcome = "raises" -> [source |-> Url_A_Modulo, error |-> msg]
    [] OTHER -> [Pdf_Pipeline EXCEPT !.is_priority = is_priority]

(* a bug: every non-empty result is kept, an error record too *)
KeepsPdfResultNoErrorTest(result) == result # EmptyDict

(* `if last_pdf_result and not last_pdf_result.get('error')` *)
KeepsPdfResult(result) ==
  /\ result # EmptyDict
  /\ ~ ("error" \in DOMAIN result /\ Truthy(result.error))

GrantInit ==
  /\ pc = "fetch"
  /\ web_data = <<>>
  /\ pdf_data = <<>>
  /\ merged_data = EmptyDict
  /\ documentation_summary = EmptyStr
  /\ link = 1
  /\ html_content = None
  /\ pdf_links = <<>>
  /\ link_idx = 0
  /\ processed = 0
  /\ last_pdf_result = EmptyDict
  /\ printed_len = 0
  /\ CatIdle
  /\ PoolIdle
  /\ RetryIdle
  /\ MainIdle
  /\ UtilIdle
  /\ ExtractIdle
  /\ UpdateIdle
  /\ DocIdle
  /\ RunIdle

(* the position after the work on the current link: the second link, or the *)
(* clean-up of lines 125-127 that precedes the merge                        *)
AfterLink(l) == IF l = 1 THEN "fetch" ELSE "collect"

(* lines 47-50 and 83-86: the link is absent, invalid or a repetition, or   *)
(* get_page_content returns None, or it returns the page                    *)
GetPageContent ==
  /\ pc = "fetch"
  /\ \E content \in {None, "html"} :
       /\ html_content' = content
       /\ IF content = None
            THEN pc' = AfterLink(link) /\ link' = link + 1
            ELSE pc' = "extract" /\ UNCHANGED link
  /\ UNCHANGED <<web_data, pdf_data, merged_data, documentation_summary>>
  /\ UNCHANGED <<pdf_links, link_idx, processed, last_pdf_result, printed_len>>
  /\ UNCHANGED <<cat_vars, pool_vars, retry_vars, main_vars, util_vars, extract_vars, update_vars, doc_vars, run_vars>>

(* lines 51-58 and 87-95: the record of the page and its PDF links *)
ExtractPage ==
  /\ pc = "extract"
  /\ \E web_info \in GrantWebRecords : web_data' = Append(web_data, web_info)
  /\ pdf_links' \in LinkLists(link)
  /\ link_idx' = 1
  /\ processed' = 0
  /\ pc' = "priority"
  /\ UNCHANGED <<pdf_data, merged_data, documentation_summary>>
  /\ UNCHANGED <<link, html_content, last_pdf_result, printed_len>>
  /\ UNCHANGED <<cat_vars, pool_vars, retry_vars, main_vars, util_vars, extract_vars, update_vars, doc_vars, run_vars>>

(* the running loop takes the links whose flag is its own *)
InLoop == pc \in {"priority", "non_priority"}

Taken == link_idx <= Len(pdf_links) /\ pdf_links[link_idx] = (pc = "priority")

(* the break of a loop that tests its limit with > where the code has >= *)
BreakAfterLimit(data, count) ==
  \/ pc = "priority" /\ link = 2 /\ count > PriorityLimit
  \/ pc = "non_priority" /\ link = 1 /\ Len(data) > PdfDataLimit
  \/ pc = "non_priority" /\ link = 2 /\ count > NonPriorityLimit

(* the break of the running loop: lines 78-80, 103-106, 120-123 *)
Break(data, count) ==
  \/ pc = "priority" /\ link = 2 /\ count >= PriorityLimit
  \/ pc = "non_priority" /\ link = 1 /\ Len(data) >= PdfDataLimit
  \/ pc = "non_priority" /\ link = 2 /\ count >= NonPriorityLimit

(* the position after the running loop *)
AfterLoop == IF pc = "priority" THEN "need_more" ELSE AfterLink(link)

(* lines 61-65, 72-80, 97-106, 114-123: one link the running loop takes *)
ProcessPdf ==
  /\ InLoop
  /\ Taken
  /\ \E outcome \in PdfOutcomes, msg \in ErrorMessages :
       LET result == process_pdf(pdf_links[link_idx], outcome, msg)
           kept == KeepsPdfResult(result)
           data == IF kept THEN Append(pdf_data, result) ELSE pdf_data
           count == IF kept THEN processed + 1 ELSE processed
       IN  /\ last_pdf_result' = result
           /\ pdf_data' = data
           /\ processed' = count
           /\ IF kept /\ Break(data, count)
                THEN /\ pc' = AfterLoop
                     /\ link' = IF pc = "non_priority" THEN link + 1 ELSE link
                     /\ UNCHANGED link_idx
                ELSE /\ link_idx' = link_idx + 1
                     /\ UNCHANGED <<pc, link>>
  /\ UNCHANGED <<web_data, merged_data, documentation_summary>>
  /\ UNCHANGED <<html_content, pdf_links, printed_len>>
  /\ UNCHANGED <<cat_vars, pool_vars, retry_vars, main_vars, util_vars, extract_vars, update_vars, doc_vars, run_vars>>

(* a link the running loop leaves to the other loop *)
SkipLink ==
  /\ InLoop
  /\ link_idx <= Len(pdf_links)
  /\ ~ Taken
  /\ link_idx' = link_idx + 1
  /\ UNCHANGED <<pc, web_data, pdf_data, merged_data, documentation_summary>>
  /\ UNCHANGED <<link, html_content, pdf_links, processed, last_pdf_result, printed_len>>
  /\ UNCHANGED <<cat_vars, pool_vars, retry_vars, main_vars, util_vars, extract_vars, update_vars, doc_vars, run_vars>>

(* the running loop has seen every link *)
LoopDone ==
  /\ InLoop
  /\ link_idx > Len(pdf_links)
  /\ pc' = AfterLoop
  /\ link' = IF pc = "non_priority" THEN link + 1 ELSE link
  /\ UNCHANGED <<web_data, pdf_data, merged_data, documentation_summary>>
  /\ UNCHANGED <<html_content, pdf_links, link_idx, processed, last_pdf_result, printed_len>>
  /\ UNCHANGED <<cat_vars, pool_vars, retry_vars, main_vars, util_vars, extract_vars, update_vars, doc_vars, run_vars>>

(* lines 68-70 and 109-113: the non-priority loop runs when need_more_pdfs *)
(* is true of the records and their printed length                        *)
NeedMorePdfs ==
  /\ pc = "need_more"
  /\ \E len \in PrintedLens(pdf_data) :
       /\ printed_len' = len
       /\ IF NeedMore(pdf_data, len)
            THEN pc' = "non_priority" /\ link_idx' = 1 /\ processed' = 0 /\ UNCHANGED link
            ELSE pc' = AfterLink(link) /\ link' = link + 1 /\ UNCHANGED <<link_idx, processed>>
  /\ UNCHANGED <<web_data, pdf_data, merged_data, documentation_summary>>
  /\ UNCHANGED <<html_content, pdf_links, last_pdf_result>>
  /\ UNCHANGED <<cat_vars, pool_vars, retry_vars, main_vars, util_vars, extract_vars, update_vars, doc_vars, run_vars>>

GrantNext ==
  \/ GetPageContent
  \/ ExtractPage
  \/ ProcessPdf
  \/ SkipLink
  \/ LoopDone
  \/ NeedMorePdfs
  \/ MergeGrantData
  \/ GenerateSummary

GrantSpec == GrantInit /\ [][GrantNext]_vars

(* a result of process_pdf that stands for an unavailable source *)
Unavailable(result) == result = EmptyDict \/ "error" \in DOMAIN result

(***************************************************************************)
(* C12.  A source that is unavailable contributes nothing and never        *)
(* surfaces as an error: when a page fetch returns None, or a PDF download *)
(* or text extraction yields nothing, or process_pdf returns a record      *)
(* carrying 'error', no record is added to web_data or pdf_data and        *)
(* process_grant goes on to its next position; when it has set the summary *)
(* and no source yielded a record, the summary is the sentinel.            *)
(***************************************************************************)
C12_UnavailableContributesNothing ==
  [][/\ (pc = "fetch" /\ html_content' = None)
          => /\ web_data' = web_data /\ pdf_data' = pdf_data
             /\ pc' \in {"fetch", "collect"}
     /\ (InLoop /\ Taken /\ Unavailable(last_pdf_result'))
          => /\ web_data' = web_data /\ pdf_data' = pdf_data
             /\ pc' \in {"priority", "non_priority"} /\ link_idx' = link_idx + 1
     /\ (pc' = "done" /\ web_data' = <<>> /\ pdf_data' = <<>>)
          => documentation_summary' = S_Sentinel]_vars

(* an error record with an empty message went into pdf_data and the summary *)
(* was produced from it                                                     *)
C12_WitnessErrorRecordKept ==
  /\ pc = "done"
  /\ \E i \in DOMAIN pdf_data : "error" \in DOMAIN pdf_data[i]

(***************************************************************************)
(* C13.  merge_grant_data leaves every input record unchanged: after the   *)
(* call each web record and each PDF record, including every item sequence *)
(* in its 'lists', equals its value before the call, for every number of   *)
(* records and every overlap of list titles between them.                  *)
(***************************************************************************)
C13_InputsUnchanged ==
  [][(pc = "collect" /\ pc' = "merged")
       => (web_data' = web_data /\ pdf_data' = pdf_data)]_vars

(* after the merge a collected record is none of the records extracted *)
C13_WitnessInputListExtended ==
  /\ pc = "merged"
  /\ \/ \E i \in DOMAIN web_data : web_data[i] \notin WebRecords
     \/ \E i \in DOMAIN pdf_data : pdf_data[i] \notin PdfRecords

(***************************************************************************)
(* The pure helpers applied to inputs drawn from bounded sets              *)
(***************************************************************************)
(* "Modulo di domanda A" *)
I_DomandaA ==
  <<"M", "o", "d", "u", "l", "o", " ", "d", "i", " ", "d", "o", "m", "a", "n", "d", "a",
    " ", "A">>

(* "Modulo di domanda B" *)
I_DomandaB ==
  <<"M", "o", "d", "u", "l", "o", " ", "d", "i", " ", "d", "o", "m", "a", "n", "d", "a",
    " ", "B">>

(* "Curriculum vitae firmato" *)
I_Curriculum ==
  <<"C", "u", "r", "r", "i", "c", "u", "l", "u", "m", " ", "v", "i", "t", "a", "e", " ",
    "f", "i", "r", "m", "a", "t", "o">>

(* "Dichiarazione de minimis" *)
I_Dichiarazione ==
  <<"D", "i", "c", "h", "i", "a", "r", "a", "z", "i", "o", "n", "e", " ", "d", "e", " ",
    "m", "i", "n", "i", "m", "i", "s">>

MaxItems == 3

(* items of several lengths and scores: two of them score the same, one is *)
(* shorter than 15 characters                                              *)
ItemPool == {I_VisuraCamerale, I_Bilanci3, I_DomandaA, I_DomandaB, I_CV}

(* 12 items of which 3 are shorter than 15 characters *)
TwelveItems ==
  <<I_VisuraCamerale, I_CV, I_Bilanci3, I_DomandaA, I_ModuloA1, I_DomandaB,
    I_Curriculum, I_Visura, I_Dichiarazione, I_VisuraCamerale, I_Bilanci3, I_DomandaB>>

UtilIdleArgs ==
  /\ calls = 0
  /\ returned = <<>>
  /\ CoreIdle
  /\ CatIdle
  /\ PoolIdle
  /\ RetryIdle
  /\ MainIdle
  /\ GrantIdle
  /\ ExtractIdle
  /\ UpdateIdle
  /\ DocIdle
  /\ RunIdle

SelectInit ==
  /\ func = "select"
  /\ \/ arg_items \in SeqsUpTo(ItemPool, MaxItems) /\ arg_limit \in 1..MaxItems
     \/ arg_items = TwelveItems /\ arg_limit = 10
  /\ arg_text = EmptyStr

(* docs = self._select_most_informative_items(items, max_items) *)
ApplySelect ==
  /\ func = "select"
  /\ calls = 0
  /\ returned' = select_most_informative_items(arg_items, arg_limit)
  /\ calls' = 1
  /\ UNCHANGED <<func, arg_items, arg_text, arg_limit>>
  /\ UNCHANGED <<core_vars, cat_vars, pool_vars, retry_vars, main_vars, grant_vars, extract_vars, update_vars, doc_vars, run_vars>>

(* a is b with some elements left out, the others in the same order *)
RECURSIVE IsSubsequence(_, _)
IsSubsequence(a, b) ==
  IF Len(a) = 0 THEN TRUE
  ELSE IF Len(b) = 0 THEN FALSE
  ELSE IF a[1] = b[1] THEN IsSubsequence(Tail(a), Tail(b))
  ELSE IsSubsequence(a, Tail(b))

(* the items of s whose score is n *)
WithScore(s, n) == SelectSeq(s, LAMBDA item : Score50(item) = n)

(***************************************************************************)
(* C14.  _select_most_informative_items(items, max_items) returns items    *)
(* unchanged when len(items) <= max_items; otherwise its result contains   *)
(* only items of length >= 15, has at most max_items elements, is sorted   *)
(* by descending score, and items with equal score keep their relative     *)
(* input order; 12 items of which 3 are shorter than 15 characters yield   *)
(* at most 9 items with max_items = 10.                                    *)
(***************************************************************************)
C14_SelectContract ==
  (func = "select" /\ calls = 1) =>
    /\ Len(arg_items) <= arg_limit => returned = arg_items
    /\ Len(arg_items) > arg_limit =>
         /\ \A i \in DOMAIN returned :
              Len(returned[i]) >= 15 /\ InSeq(returned[i], arg_items)
         /\ Len(returned) <= arg_limit
         /\ \A i, j \in DOMAIN returned :
              i < j => Score50(returned[i]) >= Score50(returned[j])
         /\ \A i \in DOMAIN returned :
              IsSubsequence(WithScore(returned, Score50(returned[i])),
                            WithScore(arg_items, Score50(returned[i])))
    /\ (arg_items = TwelveItems /\ arg_limit = 10) => Len(returned) <= 9

(* more items than max_items, two of equal score kept, in their input order *)
C14_WitnessTieKept ==
  /\ func = "select"
  /\ calls = 1
  /\ Len(arg_items) > arg_limit
  /\ \E i, j \in DOMAIN returned :
       i < j /\ returned[i] # returned[j]
             /\ Score50(returned[i]) = Score50(returned[j])

(***************************************************************************)
(* truncate_text applied to short texts with periods                       *)
(***************************************************************************)
MaxTextLen == 4

TruncateChars == {"a", ".", " "}

TruncateInit ==
  /\ func = "truncate"
  /\ arg_text \in SeqsUpTo(TruncateChars, MaxTextLen)
  /\ arg_limit \in 0..MaxTextLen
  /\ arg_items = <<>>

(* truncate_text(text, max_length) *)
ApplyTruncate ==
  /\ func = "truncate"
  /\ calls = 0
  /\ returned' = truncate_text(arg_text, arg_limit)
  /\ calls' = 1
  /\ UNCHANGED <<func, arg_items, arg_text, arg_limit>>
  /\ UNCHANGED <<core_vars, cat_vars, pool_vars, retry_vars, main_vars, grant_vars, extract_vars, update_vars, doc_vars, run_vars>>

(* the positions of the periods within the first n characters of text *)
PeriodsWithin(text, n) == {i \in DOMAIN text : i <= n /\ text[i] = "."}

(***************************************************************************)
(* C15.  For every text and every limit n, truncate_text(text, n) returns  *)
(* a string of length at most n + 3, and whenever a period occurs within   *)
(* the first n characters of text the returned string ends with that       *)
(* period (the last period within the limit).                              *)
(***************************************************************************)
C15_TruncateEndsWithPeriod ==
  (func = "truncate" /\ calls = 1) =>
    /\ Len(returned) <= arg_limit + 3
    /\ PeriodsWithin(arg_text, arg_limit) # {} =>
         returned = SubSeq(arg_text, 1, SetMax(PeriodsWithin(arg_text, arg_limit)))

(***************************************************************************)
(* C15, amended.  For every text and every limit n >= 0 the returned       *)
(* string has length at most n + 3; a text of at most n characters is      *)
(* returned unchanged, whatever it ends with; for a longer text, whenever  *)
(* a period occurs within the first n characters the returned string is    *)
(* the text up to and including the last such period.                     *)
(***************************************************************************)
C15_TruncateLongTextEndsWithPeriod ==
  (func = "truncate" /\ calls = 1) =>
    /\ Len(returned) <= arg_limit + 3
    /\ Len(arg_text) <= arg_limit => returned = arg_text
    /\ (Len(arg_text) > arg_limit /\ PeriodsWithin(arg_text, arg_limit) # {}) =>
         returned = SubSeq(arg_text, 1, SetMax(PeriodsWithin(arg_text, arg_limit)))

(* a text longer than the limit with two periods within it: cut at the second *)
C15_WitnessCutAtLastPeriod ==
  /\ func = "truncate"
  /\ calls = 1
  /\ Len(arg_text) > arg_limit
  /\ Cardinality(PeriodsWithin(arg_text, arg_limit)) = 2
  /\ Len(returned) < arg_limit

(***************************************************************************)
(* utils.normalize_whitespace and utils.clean_text.  The characters that   *)
(* are not ASCII are written by name: "NBSP" (U+00A0), "BULLET" (U+2022),  *)
(* "LSQUO", "RSQUO", "LDQUO", "RDQUO" (U+2018..U+201D), "NDASH", "MDASH".  *)
(***************************************************************************)
(* the characters \s matches and str.strip() strips *)
Whitespace == {" ", "\t", "\n", "\r", "\f", "NBSP"}

(* the characters \w matches, of those that occur *)
WordChars ==
  {UpperChars[i] : i \in DOMAIN UpperChars} \cup {LowerChars[i] : i \in DOMAIN LowerChars}
    \cup Digits \cup {"_"}

Vowels == {"a", "e", "i", "o", "u", "A", "E", "I", "O", "U"}

(* the first position from i on at which a match begins, 0 when there is *)
(* none: a regular expression is matched at the leftmost position        *)
NextMatch(s, i, Begins(_)) ==
  LET at == {p \in i..Len(s) : Begins(p)}
  IN  IF at = {} THEN 0 ELSE SetMin(at)

(* the first position from i on that holds no character of set, Len(s) + 1 *)
(* when there is none                                                      *)
SkipChars(s, i, set) ==
  LET rest == {p \in i..Len(s) : s[p] \notin set}
  IN  IF rest # {} THEN SetMin(rest) ELSE IF i > Len(s) THEN i ELSE Len(s) + 1

(* re.sub(r'\s+', ' ', text) from position i on: a run of white space is *)
(* kept as the one blank that stands where the run begins                 *)
CollapseWhitespace(s, i) ==
  LET kept == SelectSeq([n \in 1..(Len(s) - i + 1) |-> n + i - 1],
                        LAMBDA p : s[p] \notin Whitespace \/ p = i
                                     \/ s[p - 1] \notin Whitespace)
  IN  [n \in DOMAIN kept |-> IF s[kept[n]] \in Whitespace THEN " " ELSE s[kept[n]]]

(* str.strip() *)
Strip(s) ==
  LET first == SkipChars(s, 1, Whitespace)
      inside == {i \in DOMAIN s : s[i] \notin Whitespace}
  IN  IF inside = {} THEN EmptyStr ELSE SubSeq(s, first, SetMax(inside))

(* a bug: the final strip() left out *)
normalize_whitespace_no_strip(text) ==
  IF text = NoneStr THEN EmptyStr ELSE CollapseWhitespace(text, 1)

normalize_whitespace(text) ==
  IF text = NoneStr THEN EmptyStr ELSE Strip(CollapseWhitespace(text, 1))

(* lines 46-50: the chain of str.replace on single characters *)
ReplaceChar(c) ==
  CASE c \in {"LSQUO", "RSQUO"} -> "'"
    [] c \in {"LDQUO", "RDQUO"} -> "\""
    [] c \in {"NDASH", "MDASH"} -> "-"
    [] c = "NBSP" -> " "
    [] OTHER -> c

(* line 53: re.sub(r'BULLET\s*([BULLET\-*])\s*', 'BULLET ', text) *)
RECURSIVE DoubleBullets(_, _)
DoubleBullets(s, i) ==
  IF i > Len(s) THEN <<>>
  ELSE
  LET m == NextMatch(s, i, LAMBDA p :
             /\ s[p] = "BULLET"
             /\ SkipChars(s, p + 1, Whitespace) <= Len(s)
             /\ s[SkipChars(s, p + 1, Whitespace)] \in {"BULLET", "-", "*"})
      j == SkipChars(s, m + 1, Whitespace)
  IN  IF m = 0 THEN SubSeq(s, i, Len(s))
      ELSE SubSeq(s, i, m - 1) \o <<"BULLET", " ">>
             \o DoubleBullets(s, SkipChars(s, j + 1, Whitespace))

(* line 54: re.sub(r'([.!?])\s+([A-Z])', r'\1 \2', text) *)
RECURSIVE SentenceSpacing(_, _)
SentenceSpacing(s, i) ==
  IF i > Len(s) THEN <<>>
  ELSE
  LET m == NextMatch(s, i, LAMBDA p :
             /\ s[p] \in {".", "!", "?"}
             /\ SkipChars(s, p + 1, Whitespace) > p + 1
             /\ SkipChars(s, p + 1, Whitespace) <= Len(s)
             /\ s[SkipChars(s, p + 1, Whitespace)] \in {UpperChars[k] : k \in 1..26})
      j == SkipChars(s, m + 1, Whitespace)
  IN  IF m = 0 THEN SubSeq(s, i, Len(s))
      ELSE SubSeq(s, i, m - 1) \o <<s[m], " ", s[j]>> \o SentenceSpacing(s, j + 1)

Punctuation == {".", "!", "?", ",", ":", ";"}

(* line 57: re.sub(r'([.!?,:;]){2,}', r'\1', text), the last of the run is kept *)
RECURSIVE ExcessPunctuation(_, _)
ExcessPunctuation(s, i) ==
  IF i > Len(s) THEN <<>>
  ELSE
  LET m == NextMatch(s, i, LAMBDA p : SkipChars(s, p, Punctuation) >= p + 2)
      j == SkipChars(s, m, Punctuation)
  IN  IF m = 0 THEN SubSeq(s, i, Len(s))
      ELSE SubSeq(s, i, m - 1) \o <<s[j - 1]>> \o ExcessPunctuation(s, j)

(* line 60: re.sub(r'\b(l)\s+([aeiouAEIOU])', r"l'\2", text) *)
RECURSIVE Articles(_, _)
Articles(s, i) ==
  IF i > Len(s) THEN <<>>
  ELSE
  LET m == NextMatch(s, i, LAMBDA p :
             /\ s[p] = "l"
             /\ (p = 1 \/ s[p - 1] \notin WordChars)
             /\ SkipChars(s, p + 1, Whitespace) > p + 1
             /\ SkipChars(s, p + 1, Whitespace) <= Len(s)
             /\ s[SkipChars(s, p + 1, Whitespace)] \in Vowels)
      j == SkipChars(s, m + 1, Whitespace)
  IN  IF m = 0 THEN SubSeq(s, i, Len(s))
      ELSE SubSeq(s, i, m - 1) \o <<"l", "'", s[j]>> \o Articles(s, j + 1)

(* line 63: re.sub(r'\s+([.,;:!?])', r'\1', text) *)
RECURSIVE SpaceBeforePunctuation(_, _)
SpaceBeforePunctuation(s, i) ==
  IF i > Len(s) THEN <<>>
  ELSE
  LET m == NextMatch(s, i, LAMBDA p :
             /\ SkipChars(s, p, Whitespace) > p
             /\ SkipChars(s, p, Whitespace) <= Len(s)
             /\ s[SkipChars(s, p, Whitespace)] \in Punctuation)
      j == SkipChars(s, m, Whitespace)
  IN  IF m = 0 THEN SubSeq(s, i, Len(s))
      ELSE SubSeq(s, i, m - 1) \o <<s[j]>> \o SpaceBeforePunctuation(s, j + 1)

Markers == {"BULLET", "-", "*"} \cup Digits

(* line 66: re.sub(r'^[BULLET\-*\d]+[\.\)]*\s*', '', text) *)
LeadingMarkers(s) ==
  IF Len(s) > 0 /\ s[1] \in Markers
  THEN LET a == SkipChars(s, 1, Markers)
           b == SkipChars(s, a, {".", ")"})
           c == SkipChars(s, b, Whitespace)
       IN  SubSeq(s, c, Len(s))
  ELSE s

clean_text(text) ==
  IF text = NoneStr THEN EmptyStr
  ELSE LET t1 == normalize_whitespace(text)
           t2 == [i \in DOMAIN t1 |-> ReplaceChar(t1[i])]
           t3 == DoubleBullets(t2, 1)
           t4 == SentenceSpacing(t3, 1)
           t5 == ExcessPunctuation(t4, 1)
           t6 == Articles(t5, 1)
           t7 == SpaceBeforePunctuation(t6, 1)
       IN  LeadingMarkers(t7)

(***************************************************************************)
(* normalize_whitespace applied to short texts and to None                 *)
(***************************************************************************)
NormalizeChars == {" ", "\n", "a", "NBSP"}

NormalizeInit ==
  /\ func = "normalize"
  /\ arg_text \in SeqsUpTo(NormalizeChars, MaxTextLen) \cup {NoneStr}
  /\ arg_limit = 0
  /\ arg_items = <<>>

(* normalize_whitespace(text) *)
ApplyNormalize ==
  /\ func = "normalize"
  /\ calls = 0
  /\ returned' = normalize_whitespace(arg_text)
  /\ calls' = 1
  /\ UNCHANGED <<func, arg_items, arg_text, arg_limit>>
  /\ UNCHANGED <<core_vars, cat_vars, pool_vars, retry_vars, main_vars, grant_vars, extract_vars, update_vars, doc_vars, run_vars>>

(***************************************************************************)
(* C17.  The output of normalize_whitespace never contains two             *)
(* consecutive space characters and never begins or ends with a space;     *)
(* for the input None it returns the empty string.                         *)
(***************************************************************************)
C17_NormalizedWhitespace ==
  (func = "normalize" /\ calls = 1) =>
    /\ \A i \in DOMAIN returned : i < Len(returned) => ~(returned[i] = " " /\ returned[i + 1] = " ")
    /\ Len(returned) > 0 => (returned[1] # " " /\ returned[Len(returned)] # " ")
    /\ arg_text = NoneStr => returned = EmptyStr

(* a text with a leading space and a run of two different whitespace       *)
(* characters inside: one space is left between the words                  *)
C17_WitnessRunCollapsed ==
  /\ func = "normalize"
  /\ calls = 1
  /\ arg_text = <<" ", "a", "\n", "NBSP", "a">> \/ arg_text = <<"a", "\n", "NBSP", "a">>
  /\ returned = <<"a", " ", "a">>

(***************************************************************************)
(* clean_text applied to its own output                                    *)
(***************************************************************************)
CleanChars == {" ", "a", "l", ".", "BULLET", "-", "1"}

(* the characters of the texts that hold the end of a sentence *)
SentenceChars == {" ", "a", ".", "?", "I"}

CleanInit ==
  /\ func = "clean"
  /\ arg_text \in SeqsUpTo(CleanChars, MaxTextLen) \cup SeqsUpTo(SentenceChars, MaxTextLen)
                    \cup {NoneStr}
  /\ arg_limit = 0
  /\ arg_items = <<>>

(* y = clean_text(x) *)
ApplyClean ==
  /\ func = "clean"
  /\ calls = 0
  /\ returned' = clean_text(arg_text)
  /\ calls' = 1
  /\ UNCHANGED <<func, arg_items, arg_text, arg_limit>>
  /\ UNCHANGED <<core_vars, cat_vars, pool_vars, retry_vars, main_vars, grant_vars, extract_vars, update_vars, doc_vars, run_vars>>

(* clean_text(y): the argument is the value returned by the first call *)
ApplyCleanAgain ==
  /\ func = "clean"
  /\ calls = 1
  /\ arg_text' = returned
  /\ returned' = clean_text(returned)
  /\ calls' = 2
  /\ UNCHANGED <<func, arg_items, arg_limit>>
  /\ UNCHANGED <<core_vars, cat_vars, pool_vars, retry_vars, main_vars, grant_vars, extract_vars, update_vars, doc_vars, run_vars>>

(***************************************************************************)
(* C16.  clean_text is idempotent: for every string x,                     *)
(* clean_text(clean_text(x)) = clean_text(x).                              *)
(***************************************************************************)
C16_CleanIdempotent ==
  (func = "clean" /\ calls = 2) => returned = arg_text

(* a text that the second call changes *)
C16_WitnessSecondCallChanges ==
  /\ func = "clean"
  /\ calls = 2
  /\ returned # arg_text

(* the web titles that are not None and not empty, in input order *)
WebTitles(web) ==
  SelectSeq([i \in DOMAIN web |-> GetStr(web[i], "title")], Truthy)

(* the first of the longest strings of a non-empty sequence *)
FirstLongest(titles) ==
  titles[SetMin({i \in DOMAIN titles : \A j \in DOMAIN titles : Len(titles[j]) <= Len(titles[i])})]

(***************************************************************************)
(* C18.  The unified title chosen by merge_grant_data is the longest       *)
(* non-empty title among the web records (the earliest one on a length     *)
(* tie); if no web record has a non-empty title it is the context string   *)
(* of the first PDF record whose context is under 100 characters;          *)
(* otherwise it is empty.  (With no record at all merge_grant_data returns *)
(* {} and there is no title.)                                              *)
(***************************************************************************)
C18_UnifiedTitle ==
  (pc = "merged" /\ merged_data # EmptyDict) =>
    LET titles == WebTitles(web_data)
        short == {i \in DOMAIN pdf_data : Len(GetStr(pdf_data[i], "context")) < 100}
    IN  merged_data.title =
          IF Len(titles) > 0 THEN FirstLongest(titles)
          ELSE IF short # {} THEN pdf_data[SetMin(short)].context
          ELSE EmptyStr

(***************************************************************************)
(* C18, amended.  The unified title is the longest non-empty title among   *)
(* the web records (the earliest one on a length tie); if no web record    *)
(* has a non-empty title it is the context string of the first PDF record  *)
(* whose context is non-empty and under 100 characters; otherwise it is    *)
(* empty.                                                                  *)
(***************************************************************************)
C18_UnifiedTitleNonEmptyContext ==
  (pc = "merged" /\ merged_data # EmptyDict) =>
    LET titles == WebTitles(web_data)
        short == {i \in DOMAIN pdf_data :
                    /\ Truthy(GetStr(pdf_data[i], "context"))
                    /\ Len(GetStr(pdf_data[i], "context")) < 100}
    IN  merged_data.title =
          IF Len(titles) > 0 THEN FirstLongest(titles)
          ELSE IF short # {} THEN pdf_data[SetMin(short)].context
          ELSE EmptyStr

(* no web title, a first PDF record whose context has 100 characters and a *)
(* second one with a short context, which becomes the title                *)
C18_WitnessSecondPdfContext ==
  /\ pc = "merged"
  /\ Len(WebTitles(web_data)) = 0
  /\ Len(pdf_data) = 2
  /\ Len(pdf_data[1].context) >= 100
  /\ merged_data.title = pdf_data[2].context
  /\ Len(merged_data.title) > 0

(***************************************************************************)
(* generate_summary applied to unified records of every shape              *)
(***************************************************************************)
(* "scaduto" *)
W_scaduto == <<"s", "c", "a", "d", "u", "t", "o">>

(* a section body of 107 characters that holds the keyword "scad" *)
V_LongScaduto == W_scaduto \o [i \in 1..100 |-> "x"]

(* a section body of 101 characters that holds no keyword *)
V_LongPlain == [i \in 1..101 |-> "x"]

RenderTitles == {EmptyStr, Title_BandoA}

RenderOverviews == {EmptyStr, V_Generico}

RenderItems == {<<>>, <<I_VisuraCamerale>>}

(* n different items of fewer than 15 characters: "x", "xx", ... *)
ShortItems(n) == [i \in 1..n |-> [j \in 1..i |-> "x"]]

RenderLists ==
  {<<>>,
   <<[k |-> Ctx_Modulistica, v |-> ShortItems(ListMaxItems + 1)]>>,
   <<[k |-> K_Documenti, v |-> <<I_CV>>]>>,
   <<[k |-> K_Documenti, v |-> <<I_CV, I_Visura>>]>>,
   <<[k |-> K_Documenti, v |-> <<I_VisuraCamerale, I_Bilanci3>>],
     [k |-> Ctx_Modulistica, v |-> <<I_DomandaA, I_DomandaB>>]>>}

RenderSections ==
  {<<>>,
   <<[k |-> K_Note, v |-> V_Generico]>>,
   <<[k |-> K_Note, v |-> V_LongScaduto]>>,
   <<[k |-> K_Bando, v |-> V_LongPlain], [k |-> K_Note, v |-> V_LongScaduto]>>}

RenderSources ==
  {<<>>, <<[url |-> Url_A_Modulo, filename |-> File_Modulo, context |-> Ctx_Modulistica]>>}

(* the records merge_grant_data can return: {} or the ten fields *)
UnifiedRecords ==
  {EmptyDict} \cup
  [title : RenderTitles, overview : RenderOverviews, sections : RenderSections,
   lists : RenderLists, requirements : RenderItems,
   documentation : RenderItems \cup {ShortItems(CategoryMaxItems + 1)},
   deadlines : RenderItems, eligibility : RenderItems, funding : RenderItems,
   pdf_sources : RenderSources]

(* main.py line 133, after the merge of line 130 returned grant_data; the  *)
(* renderer reads nothing but the unified record                           *)
RenderInit ==
  /\ pc = "merged"
  /\ web_data = <<>>
  /\ pdf_data = <<>>
  /\ merged_data \in UnifiedRecords
  /\ documentation_summary = EmptyStr
  /\ CatIdle
  /\ PoolIdle
  /\ RetryIdle
  /\ MainIdle
  /\ GrantIdle
  /\ UtilIdle
  /\ ExtractIdle
  /\ UpdateIdle
  /\ DocIdle
  /\ RunIdle

RenderNext == GenerateSummary

RenderSpec == RenderInit /\ [][RenderNext]_vars

(* the lines of a document: str.split('\n') from position start on *)
RECURSIVE SplitLines(_, _)
SplitLines(s, start) ==
  LET breaks == {i \in start..Len(s) : s[i] = "\n"}
  IN  IF breaks = {} THEN <<SubSeq(s, start, Len(s))>>
      ELSE <<SubSeq(s, start, SetMin(breaks) - 1)>> \o SplitLines(s, SetMin(breaks) + 1)

(* a heading line or the timestamp line *)
IsMarked(line) == Len(line) > 0 /\ line[1] \in {"#", "_"}

(* the text of a heading without its line breaks *)
HeadingText(s) == SelectSeq(s, LAMBDA c : c # "\n")

(* the heading of a named part when its source data is not empty *)
HeadingIf(source, heading) == IF Len(source) > 0 THEN <<HeadingText(heading)>> ELSE <<>>

(* the headings of the lists of more than one item, in the order of the mapping *)
ListHeadings(lists) ==
  LET shown == SelectSeq(lists, LAMBDA l : Len(l.v) > 1)
  IN  [i \in DOMAIN shown |-> HeadingText(S_H2) \o shown[i].k]

(* the headings of the leftover sections of more than 100 characters that  *)
(* hold a relevance keyword, in the order of the mapping                   *)
SectionHeadings(sections) ==
  LET shown == SelectSeq(sections,
                 LAMBDA s : Len(s.v) > 100 /\ ContainsAny(Lower(s.k \o s.v), RelevanceKeywords))
  IN  [i \in DOMAIN shown |-> HeadingText(S_H2) \o shown[i].k]

(* the headings a document must show, in the fixed order *)
ExpectedHeadings(md) ==
  <<IF Len(md.title) > 0 THEN S_H1 \o md.title ELSE S_DefaultTitle>>
    \o HeadingIf(md.overview, S_Panoramica)
    \o HeadingIf(md.documentation, S_DocumentazioneRichiesta)
    \o HeadingIf(md.requirements, S_Requisiti)
    \o HeadingIf(md.eligibility, S_BeneficiariAmmissibili)
    \o HeadingIf(md.funding, S_Finanziamento)
    \o HeadingIf(md.deadlines, S_Scadenze)
    \o ListHeadings(md.lists)
    \o SectionHeadings(md.sections)
    \o HeadingIf(md.pdf_sources, S_FontiPdf)

(***************************************************************************)
(* C19.  In every document generate_summary produces for a non-empty       *)
(* record, the emitted parts appear in the fixed order title heading,      *)
(* Panoramica, Documentazione Richiesta, Requisiti, Beneficiari            *)
(* Ammissibili, Finanziamento, Scadenze, list sections, leftover sections, *)
(* Fonti PDF, timestamp line; the title heading is always first and the    *)
(* timestamp line always last, and a part whose source data is empty is    *)
(* not emitted.                                                            *)
(***************************************************************************)
C19_FixedPartOrder ==
  (pc = "done" /\ merged_data # EmptyDict) =>
    LET lines == SplitLines(documentation_summary, 1)
        marked == SelectSeq(lines, IsMarked)
    IN  /\ Len(marked) >= 2
        /\ lines[1] = marked[1]
        /\ lines[Len(lines)] = marked[Len(marked)]
        /\ \E timestamp \in Timestamps :
             marked = ExpectedHeadings(merged_data)
                        \o <<HeadingText(S_UltimoAggiornamento) \o timestamp \o S_Underscore>>

(* a document with every part: a title, an overview, the five categories,  *)
(* two list sections, one leftover section shown and one left out, sources *)
C19_WitnessEveryPart ==
  /\ pc = "done"
  /\ merged_data # EmptyDict
  /\ Len(SelectSeq(SplitLines(documentation_summary, 1), IsMarked)) = 12
  /\ Len(merged_data.sections) = 2
  /\ Len(merged_data.title) > 0

(***************************************************************************)
(* WebScraper.extract_grant_information, lines 175-216: the sections under *)
(* the matched headings, then the snippets around the search terms         *)
(***************************************************************************)
MaxHeadings == 2

(* "requisiti" *)
W_requisiti == <<"r", "e", "q", "u", "i", "s", "i", "t", "i">>

(* "documentazione" *)
W_documentazione == <<"d", "o", "c", "u", "m", "e", "n", "t", "a", "z", "i", "o", "n", "e">>

(* "scadenza" *)
W_scadenza == <<"s", "c", "a", "d", "e", "n", "z", "a">>

(* "bando" *)
W_bando == <<"b", "a", "n", "d", "o">>

(* "Visura camerale " *)
C_Visura == <<"V", "i", "s", "u", "r", "a", " ", "c", "a", "m", "e", "r", "a", "l", "e", " ">>

(* "entro la scadenza " *)
C_EntroLaScadenza == <<"e", "n", "t", "r", "o", " ", "l", "a", " ", "s", "c", "a", "d", "e", "n", "z", "a", " ">>

(* "Documentazione Visura camerale " *)
M_Documentazione == <<"D", "o", "c", "u", "m", "e", "n", "t", "a", "z", "i", "o", "n", "e", " ", "V", "i", "s", "u", "r", "a", " ", "c", "a", "m", "e", "r", "a", "l", "e", " ">>

(* "la scadenza " *)
M_LaScadenza == <<"l", "a", " ", "s", "c", "a", "d", "e", "n", "z", "a", " ">>

(* "Il bando e la documentazione " *)
M_Bando == <<"I", "l", " ", "b", "a", "n", "d", "o", " ", "e", " ", "l", "a", " ", "d", "o", "c", "u", "m", "e", "n", "t", "a", "z", "i", "o", "n", "e", " ">>

(* config.IMPORTANT_SECTIONS, the terms that occur in the headings below, in *)
(* the order of the list                                                   *)
IMPORTANT_SECTIONS == <<W_requisiti, W_documentazione, W_scadenza>>

(* config.SEARCH_TERMS, the terms that occur in the contents below, in the *)
(* order of the list                                                       *)
SEARCH_TERMS == <<W_bando, W_scadenza, W_requisiti, W_documentazione>>

(* a heading of the page with the cleaned text of the siblings that follow *)
(* it up to the next heading                                               *)
Heading(title, content) == [title |-> title, content |-> content]

HeadingPool ==
  {Heading(K_Documentazione, C_Visura),
   Heading(K_Documentazione, EmptyStr),
   Heading(K_Scadenza, C_EntroLaScadenza),
   Heading(K_RequisitiScadenze, V_RequisitiEntro \o <<" ">>),
   Heading(K_Documenti, C_Visura)}

(* main contents of at most 200 characters *)
MainContents == {EmptyStr, V_Generico \o <<" ">>, M_Documentazione, M_LaScadenza, M_Bando}

(* the ranks of the headings: h2 and h3 *)
HeadingRanks == {2, 3}

(* the headings of the pool as h2 or h3 elements *)
RankedPool ==
  {[title |-> h.title, content |-> h.content, rank |-> r] : h \in HeadingPool, r \in HeadingRanks}

(* a page: its headings, which are siblings, in document order, and its *)
(* main content                                                         *)
Pages ==
  {[headings |-> h, main_content |-> m] : h \in SeqsUpTo(RankedPool, MaxHeadings), m \in MainContents}

ExtractInit ==
  /\ epc = "sections"
  /\ page \in Pages
  /\ page_info = <<>>
  /\ term_idx = 1
  /\ CoreIdle
  /\ CatIdle
  /\ PoolIdle
  /\ RetryIdle
  /\ MainIdle
  /\ GrantIdle
  /\ UtilIdle
  /\ UpdateIdle
  /\ DocIdle
  /\ RunIdle

(* str.capitalize() *)
Capitalize(s) ==
  [i \in DOMAIN s |->
     IF i = 1 /\ \E k \in DOMAIN LowerChars : LowerChars[k] = s[i]
     THEN UpperChars[CHOOSE k \in DOMAIN LowerChars : LowerChars[k] = s[i]]
     ELSE LowerChar(s[i])]

(* lines 181-200: the headings whose text holds section_term, in page order; *)
(* the headings that do not hold it leave info as it is                       *)
RECURSIVE SectionsForTerm(_, _, _)
SectionsForTerm(info, headings, section_term) ==
  LET found == SelectSeq(headings, LAMBDA h : Contains(Lower(h.title), section_term))
      section_title == normalize_whitespace(found[1].title)
      section_content == found[1].content
  IN  IF Len(found) = 0 THEN info
      ELSE AndThen(IF Truthy(section_title) /\ Truthy(section_content)
                   THEN DictPut(info, section_title, StrVal(section_content))
                   ELSE info,
                   LAMBDA info1 : SectionsForTerm(info1, Tail(found), section_term))

(* lines 179-200: for section_term in config.IMPORTANT_SECTIONS; a term no *)
(* heading holds leaves info as it is                                      *)
RECURSIVE SectionsFrom(_, _, _)
SectionsFrom(info, headings, i) ==
  LET held == {j \in i..Len(IMPORTANT_SECTIONS) :
                 \E h \in DOMAIN headings :
                   Contains(Lower(headings[h].title), IMPORTANT_SECTIONS[j])}
  IN  IF held = {} THEN info
      ELSE AndThen(SectionsForTerm(info, headings, IMPORTANT_SECTIONS[SetMin(held)]),
                   LAMBDA info1 : SectionsFrom(info1, headings, SetMin(held) + 1))

(* lines 205-206: pattern.findall(main_content) on a content of at most 200 *)
(* characters without line breaks: the whole content, when it holds the    *)
(* term in any case                                                        *)
Matches(term, main_content) ==
  IF Contains(Lower(main_content), term) THEN <<main_content>> ELSE <<>>

(* line 215: clean_match not in structured_info[term_key], a substring test *)
(* on a string and a membership test on a list                             *)
NotIn(clean_match, value) ==
  IF IsList(value) THEN ~InSeq(clean_match, value.list)
  ELSE ~Contains(value.str, clean_match)

(* lines 210-211 *)
WithTermKey(info, term_key) ==
  IF DictHas(info, term_key) THEN info ELSE DictPut(info, term_key, ListVal(<<>>))

(* line 216 on a value that is a string: str has no append, AttributeError *)
AppendRaises(info, term, main_content) ==
  LET matches == Matches(term, main_content)
      term_key == Capitalize(term)
  IN  /\ Len(matches) > 0
      /\ DictHas(info, term_key)
      /\ ~IsList(DictGet(info, term_key))
      /\ Truthy(clean_text(matches[1]))
      /\ NotIn(clean_text(matches[1]), DictGet(info, term_key))

(* lines 208-216 when nothing raises *)
WithMatches(info, term, main_content) ==
  LET matches == Matches(term, main_content)
      term_key == Capitalize(term)
      info1 == WithTermKey(info, term_key)
      clean_match == clean_text(matches[1])
  IN  IF Len(matches) = 0 THEN info
      ELSE IF Truthy(clean_match) /\ NotIn(clean_match, DictGet(info1, term_key))
      THEN DictPut(info1, term_key, ListVal(Append(DictGet(info1, term_key).list, clean_match)))
      ELSE info1

(* lines 175-200 *)
ImportantSections ==
  /\ epc = "sections"
  /\ page_info' = SectionsFrom(<<>>, page.headings, 1)
  /\ epc' = "terms"
  /\ UNCHANGED <<page, term_idx>>
  /\ UNCHANGED <<core_vars, cat_vars, pool_vars, retry_vars, main_vars, grant_vars, util_vars, update_vars, doc_vars, run_vars>>

(* lines 203-216, one term of config.SEARCH_TERMS *)
SearchTerm ==
  /\ epc = "terms"
  /\ term_idx <= Len(SEARCH_TERMS)
  /\ ~AppendRaises(page_info, SEARCH_TERMS[term_idx], page.main_content)
  /\ page_info' = WithMatches(page_info, SEARCH_TERMS[term_idx], page.main_content)
  /\ term_idx' = term_idx + 1
  /\ UNCHANGED <<epc, page>>
  /\ UNCHANGED <<core_vars, cat_vars, pool_vars, retry_vars, main_vars, grant_vars, util_vars, update_vars, doc_vars, run_vars>>

(* line 216: the AttributeError leaves extract_grant_information, which    *)
(* has no try block                                                        *)
SearchTermRaises ==
  /\ epc = "terms"
  /\ term_idx <= Len(SEARCH_TERMS)
  /\ AppendRaises(page_info, SEARCH_TERMS[term_idx], page.main_content)
  /\ epc' = "raised"
  /\ UNCHANGED <<page, page_info, term_idx>>
  /\ UNCHANGED <<core_vars, cat_vars, pool_vars, retry_vars, main_vars, grant_vars, util_vars, update_vars, doc_vars, run_vars>>

(* lines 291-298: return the record *)
ReturnRecord ==
  /\ epc = "terms"
  /\ term_idx > Len(SEARCH_TERMS)
  /\ epc' = "returned"
  /\ UNCHANGED <<page, page_info, term_idx>>
  /\ UNCHANGED <<core_vars, cat_vars, pool_vars, retry_vars, main_vars, grant_vars, util_vars, update_vars, doc_vars, run_vars>>

ExtractNext ==
  \/ ImportantSections
  \/ SearchTerm
  \/ SearchTermRaises
  \/ ReturnRecord

ExtractSpec == ExtractInit /\ [][ExtractNext]_vars

(***************************************************************************)
(* C20.  Nothing in the extraction core is fatal: extract_grant_information *)
(* returns a record (possibly empty-ish) and never raises for any page,    *)
(* for every combination of matched section-heading titles and vocabulary  *)
(* terms found in the main content, including a page whose matched heading *)
(* text equals the capitalized form of a vocabulary term that also occurs  *)
(* in the main content.                                                    *)
(***************************************************************************)
C20_ExtractNeverRaises == epc # "raised"

(* a heading "Documentazione" with a section body, and a main content that *)
(* holds "documentazione": the append on the stored string raises          *)
C20_WitnessHeadingEqualsTermKey ==
  /\ epc = "raised"
  /\ DictHas(page_info, Capitalize(SEARCH_TERMS[term_idx]))
  /\ ~IsList(DictGet(page_info, Capitalize(SEARCH_TERMS[term_idx])))
  /\ \E i \in DOMAIN page.headings : page.headings[i].title = Capitalize(SEARCH_TERMS[term_idx])

(* the terms of the five key rules *)
KeyTerms == KeyDocumentation \cup KeyRequirements \cup KeyDeadlines \cup KeyEligibility \cup KeyFunding

(***************************************************************************)
(* C21.  The content fallback of _categorize_information applies the same  *)
(* term families as the key rules: for every key matching no family and    *)
(* every content whose lowercase join contains at least one term of the    *)
(* five key-rule families (e.g. 'tempistic', 'eligibil', 'spese'), the     *)
(* result is one of the five categories and not uncategorized.             *)
(***************************************************************************)
C21_ContentUsesKeyFamilies ==
  (/\ category # "pending"
   /\ NoMatch(KeyFamilies, Lower(key))
   /\ Len(values) > 0
   /\ ContainsAny(Lower(Join(values)), KeyTerms))
    => category \in {Categories[i] : i \in DOMAIN Categories}

(* a key of no family and a content that holds a key-rule term, left       *)
(* uncategorized                                                           *)
C21_WitnessKeyTermUncategorized ==
  /\ category = None
  /\ NoMatch(KeyFamilies, Lower(key))
  /\ Len(values) > 0
  /\ ContainsAny(Lower(Join(values)), KeyTerms)

(***************************************************************************)
(* C22.  Every list in the 'lists' mapping of the unified record returned  *)
(* by merge_grant_data is deduplicated: it contains no two items with the  *)
(* same string form, for every input, whether the title is contributed by  *)
(* one source only or by several, and for web lists as well as PDF lists.  *)
(***************************************************************************)
C22_ListsDeduplicated ==
  Merged => \A i \in DOMAIN merged_data.lists : NoDuplicates(merged_data.lists[i].v)

(* one record only, whose list names an item twice: the list is kept as is *)
C22_WitnessSingleSourceDuplicate ==
  /\ Merged
  /\ Len(web_data) = 1
  /\ Len(pdf_data) = 0
  /\ \E i \in DOMAIN merged_data.lists : ~NoDuplicates(merged_data.lists[i].v)

(***************************************************************************)
(* merge_grant_data and generate_summary applied to lists of records that  *)
(* may hold the empty record {}                                            *)
(***************************************************************************)
(* {} is what process_pdf_content returns for a document without text *)
FoldWebRecords == {Web_Ricerca, Web_A, EmptyDict}

FoldPdfRecords == {Pdf_Modulistica, Pdf_NoContext, EmptyDict}

FoldInit ==
  /\ pc = "collect"
  /\ web_data \in SeqsUpTo(FoldWebRecords, MaxWeb)
  /\ pdf_data \in SeqsUpTo(FoldPdfRecords, MaxPdf)
  /\ merged_data = EmptyDict
  /\ documentation_summary = EmptyStr
  /\ CatIdle
  /\ PoolIdle
  /\ RetryIdle
  /\ MainIdle
  /\ GrantIdle
  /\ UtilIdle
  /\ ExtractIdle
  /\ UpdateIdle
  /\ DocIdle
  /\ RunIdle

FoldNext == MergeGrantData \/ GenerateSummary

FoldSpec == FoldInit /\ [][FoldNext]_vars

(* the records of a list that are not {} *)
WithoutEmpty(records) == SelectSeq(records, LAMBDA r : r # EmptyDict)

HasEmpty(records) == \E i \in DOMAIN records : records[i] = EmptyDict

(***************************************************************************)
(* C23.  Folding an empty RawSourceRecord into the merge is a no-op: for   *)
(* all lists of web and PDF records, merge_grant_data with one additional  *)
(* empty record yields the same unified record, and generate_summary the   *)
(* same document apart from the timestamp, as without it, including when   *)
(* there are no other records at all.                                      *)
(***************************************************************************)
C23_EmptyRecordNoOp ==
  [][/\ (pc = "collect" /\ pc' = "merged")
          => merged_data' = merge_grant_data(WithoutEmpty(web_data), WithoutEmpty(pdf_data))
     /\ (pc = "merged" /\ pc' = "done")
          => \E timestamp \in Timestamps :
               documentation_summary' =
                 generate_summary(merge_grant_data(WithoutEmpty(web_data),
                                                   WithoutEmpty(pdf_data)), timestamp)
    ]_vars

(* the only record is {}: a unified record of empty fields, rendered as a  *)
(* document and not as the sentinel                                        *)
C23_WitnessOnlyEmptyRecord ==
  /\ pc = "done"
  /\ Len(web_data) + Len(pdf_data) = 1
  /\ WithoutEmpty(web_data) = <<>>
  /\ WithoutEmpty(pdf_data) = <<>>
  /\ documentation_summary # S_Sentinel

SentenceMarks == {".", "!", "?"}

(* s has one of the marks immediately followed by an uppercase letter *)
MarkThenUpper(s) ==
  \E i \in 1..(Len(s) - 1) :
    s[i] \in SentenceMarks /\ s[i + 1] \in {UpperChars[k] : k \in 1..26}

(***************************************************************************)
(* C25.  clean_text inserts a single space after '.', '!' or '?' wherever  *)
(* the mark is immediately followed by an uppercase letter: the text it    *)
(* returns has no such mark immediately followed by an uppercase letter.   *)
(***************************************************************************)
C25_SpaceAfterSentenceMark ==
  (func = "clean" /\ calls = 1 /\ arg_text # NoneStr) => ~ MarkThenUpper(returned)

(* clean_text was applied to a text with a mark immediately followed by an *)
(* uppercase letter                                                        *)
C25_WitnessMarkThenUpper ==
  func = "clean" /\ calls = 1 /\ arg_text # NoneStr /\ MarkThenUpper(arg_text)

(* heading k of the page lies in the section that heading i opens: no      *)
(* heading from i + 1 to k is of equal or higher rank than heading i       *)
InSectionOf(headings, i, k) ==
  /\ i < k
  /\ \A j \in (i + 1)..k : headings[j].rank > headings[i].rank

(* heading i is one the loop of lines 179-200 takes, and the only heading *)
(* of the page with its text                                              *)
TakenHeading(headings, i) ==
  /\ \E t \in DOMAIN IMPORTANT_SECTIONS :
       Contains(Lower(headings[i].title), IMPORTANT_SECTIONS[t])
  /\ \A j \in DOMAIN headings : headings[j].title = headings[i].title => j = i

(***************************************************************************)
(* C26.  For each heading whose text contains an IMPORTANT_SECTIONS term,  *)
(* the section body stored under the heading's normalized text runs to the *)
(* next heading of equal or higher rank: the text that follows a heading   *)
(* of lower rank inside the section is part of the stored body.            *)
(***************************************************************************)
C26_BodyRunsToEqualOrHigherRank ==
  (epc = "terms" /\ term_idx = 1)
    => \A i, k \in DOMAIN page.headings :
         (/\ TakenHeading(page.headings, i)
          /\ InSectionOf(page.headings, i, k)
          /\ Truthy(page.headings[k].content))
           => /\ DictHas(page_info, normalize_whitespace(page.headings[i].title))
              /\ Contains(DictGet(page_info, normalize_whitespace(page.headings[i].title)).str,
                          page.headings[k].content)

(* the sections of a page were extracted on which an h2 heading with a    *)
(* term is followed by its text, then by an h3 heading and other text     *)
C26_WitnessSubHeadingText ==
  /\ epc = "terms"
  /\ term_idx = 1
  /\ \E i, k \in DOMAIN page.headings :
       /\ TakenHeading(page.headings, i)
       /\ InSectionOf(page.headings, i, k)
       /\ Truthy(page.headings[i].content)
       /\ Truthy(page.headings[k].content)
       /\ page.headings[k].content # page.headings[i].content

(***************************************************************************)
(* update_documentation under its retry wrapper (db_manager.py lines       *)
(* 87-150), called by the update loop of main (main.py lines 206-217).     *)
(*   if not self.check_grant_exists(grant_id): return False                *)
(*   try: response = ...update(...).execute()                              *)
(*        if rows: return True                                             *)
(*        else: try: response = ...update(...).execute()                   *)
(*                   return True if rows else False                        *)
(*              except Exception: return False                             *)
(*   except Exception: raise                                               *)
(* check_grant_exists catches every exception and returns False, so its    *)
(* own wrapper never makes a second attempt.                               *)
(***************************************************************************)
(* what the datastore answers to a request: rows, no row, an exception *)
DbOutcomes == {"rows", "no_rows", "raises"}

(* a wrapper that makes one attempt more than stop_after_attempt allows *)
StopAfterAttemptLate(n) == n > MAX_RETRIES

(* line 88: stop=stop_after_attempt(config.MAX_RETRIES) *)
StopAfterAttempt(n) == n >= MAX_RETRIES

(* the grants whose process_grant returned, in the order of completion, *)
(* when the update loop starts                                          *)
UpdateInit ==
  /\ mpc = "updating"
  /\ futures \in [Grants -> {"ok", "raised"}]
  /\ handled = Grants
  /\ processed_grants \in SeqsUpTo(Grants, NumGrants)
  /\ \A i, j \in DOMAIN processed_grants : processed_grants[i] = processed_grants[j] => i = j
  /\ {processed_grants[i] : i \in DOMAIN processed_grants} = {g \in Grants : futures[g] = "ok"}
  /\ update_calls = <<>>
  /\ UpdateIdle
  /\ CoreIdle
  /\ CatIdle
  /\ PoolIdle
  /\ RetryIdle
  /\ GrantIdle
  /\ UtilIdle
  /\ ExtractIdle
  /\ DocIdle
  /\ RunIdle

(* a request of the running attempt and the answer to it *)
Request(op, outcome) == [attempt |-> upd_attempt, op |-> op, outcome |-> outcome]

(* the call ends: main takes the value, or catches the exception (main.py *)
(* lines 210-217)                                                         *)
ReturnToMain(outcome) ==
  /\ update_calls' =
       Append(update_calls, [id |-> processed_grants[Len(update_calls) + 1], outcome |-> outcome])
  /\ upc' = "idle"
  /\ UNCHANGED upd_attempt

(* main.py line 211: db_manager.update_documentation(grant['id'], ...) *)
CallUpdateDocumentation ==
  /\ mpc = "updating"
  /\ upc = "idle"
  /\ Len(update_calls) < Len(processed_grants)
  /\ upc' = "check"
  /\ upd_attempt' = 1
  /\ db_calls' = <<>>
  /\ UNCHANGED <<core_vars, cat_vars, pool_vars, retry_vars, main_vars, grant_vars, util_vars, extract_vars, doc_vars, run_vars>>

(* db_manager.py lines 100-102 with check_grant_exists, lines 71-85 *)
CheckGrantExists ==
  /\ upc = "check"
  /\ \E outcome \in DbOutcomes :
       /\ db_calls' = Append(db_calls, Request("select", outcome))
       /\ IF outcome = "rows"
            THEN upc' = "update" /\ UNCHANGED <<upd_attempt, update_calls>>
            ELSE ReturnToMain("false")
  /\ UNCHANGED <<futures, handled, processed_grants, mpc>>
  /\ UNCHANGED <<core_vars, cat_vars, pool_vars, retry_vars, grant_vars, util_vars, extract_vars, doc_vars, run_vars>>

(* lines 104-120 and 148-150: the update; an exception leaves the function *)
(* and the wrapper waits and calls it again, or gives up                   *)
FirstUpdate ==
  /\ upc = "update"
  /\ \E outcome \in DbOutcomes :
       /\ db_calls' = Append(db_calls, Request("update", outcome))
       /\ CASE outcome = "rows" -> ReturnToMain("true")
            [] outcome = "no_rows" -> upc' = "second" /\ UNCHANGED <<upd_attempt, update_calls>>
            [] outcome = "raises" ->
                 IF StopAfterAttempt(upd_attempt)
                 THEN ReturnToMain("raised")
                 ELSE /\ upc' = "check"
                      /\ upd_attempt' = upd_attempt + 1
                      /\ UNCHANGED update_calls
  /\ UNCHANGED <<futures, handled, processed_grants, mpc>>
  /\ UNCHANGED <<core_vars, cat_vars, pool_vars, retry_vars, grant_vars, util_vars, extract_vars, doc_vars, run_vars>>

(* lines 121-146: the second update, in its own try block *)
SecondUpdate ==
  /\ upc = "second"
  /\ \E outcome \in DbOutcomes :
       /\ db_calls' = Append(db_calls, Request("update", outcome))
       /\ ReturnToMain(IF outcome = "rows" THEN "true" ELSE "false")
  /\ UNCHANGED <<futures, handled, processed_grants, mpc>>
  /\ UNCHANGED <<core_vars, cat_vars, pool_vars, retry_vars, grant_vars, util_vars, extract_vars, doc_vars, run_vars>>

UpdateNext ==
  \/ CallUpdateDocumentation
  \/ CheckGrantExists
  \/ FirstUpdate
  \/ SecondUpdate
  \/ MainFinished

UpdateSpec == UpdateInit /\ [][UpdateNext]_vars

(* the step ends the call with the outcome *)
Returns(outcome) ==
  /\ Len(update_calls') = Len(update_calls) + 1
  /\ update_calls'[Len(update_calls')].outcome = outcome

(* the step makes the request and gets the outcome *)
Requests(op, outcome) ==
  /\ Len(db_calls') = Len(db_calls) + 1
  /\ db_calls'[Len(db_calls')] = Request(op, outcome)

(* True is returned only after the existence check and an update of the  *)
(* same attempt reported rows; an update is requested only after the     *)
(* existence check of the same attempt reported rows; the wrapper makes  *)
(* at most MAX_RETRIES attempts                                          *)
TrueOnlyIfUpdated ==
  /\ Returns("true")
       => /\ \E i \in DOMAIN db_calls' : db_calls'[i] = Request("select", "rows")
          /\ \E i \in DOMAIN db_calls' : db_calls'[i] = Request("update", "rows")
  /\ (\E outcome \in DbOutcomes : Requests("update", outcome))
       => \E i \in DOMAIN db_calls : db_calls[i] = Request("select", "rows")
  /\ (\E outcome \in DbOutcomes : Requests("select", outcome) /\ outcome # "rows")
       => Returns("false")
  /\ upd_attempt' <= MAX_RETRIES

(* the exception is met by a new attempt, or it is the exception of the *)
(* last attempt and main counts an update error                         *)
RetriedOrPropagated ==
  \/ upc' = "check" /\ upd_attempt' = upd_attempt + 1 /\ update_calls' = update_calls
  \/ /\ upd_attempt = MAX_RETRIES
     /\ Returns("raised")
     /\ update_errors' = update_errors + 1

(***************************************************************************)
(* C27, as stated.  update_documentation returns True only if the grant    *)
(* exists and the datastore reported an updated row, issues no update when *)
(* the existence check reports the grant missing, and every datastore      *)
(* exception during an update is met by a new attempt, at most MAX_RETRIES *)
(* attempts in all, before it propagates to main, which counts an update   *)
(* error.                                                                  *)
(***************************************************************************)
C27_UpdateReportsFaithfully ==
  [][/\ TrueOnlyIfUpdated
     /\ Requests("update", "raises") => RetriedOrPropagated]_vars

(***************************************************************************)
(* C27, amended.  As above for an exception of the first update of an      *)
(* attempt; an exception of the second update, which is requested when the *)
(* first reported no row, is caught inside the function: the call returns  *)
(* False without a new attempt, and main counts an update error.           *)
(***************************************************************************)
C27_FirstUpdateRetried ==
  [][/\ TrueOnlyIfUpdated
     /\ (upc = "update" /\ Requests("update", "raises")) => RetriedOrPropagated
     /\ (upc = "second" /\ Requests("update", "raises"))
          => /\ Returns("false")
             /\ update_errors' = update_errors + 1]_vars

(* the update raised in each of MAX_RETRIES attempts and main caught the *)
(* exception; an earlier call returned False after its second update     *)
(* raised                                                                *)
C27_WitnessRaisedAfterMaxRetries ==
  /\ upc = "idle"
  /\ Len(update_calls) = 2
  /\ update_calls[1].outcome = "false"
  /\ update_calls[2].outcome = "raised"
  /\ Len(db_calls) = 2 * MAX_RETRIES
  /\ db_calls[Len(db_calls)] = [attempt |-> MAX_RETRIES, op |-> "update", outcome |-> "raises"]

(***************************************************************************)
(* process_pdf on the text of one document (pdf_processor.py lines         *)
(* 203-242): extract_text_from_pdf (84-108) returns the text of the file   *)
(* after normalize_whitespace, and process_pdf_content (110-201) looks for *)
(* sections and lists in what it is given.  The state holds the 'sections' *)
(* and 'lists' of the result; its other fields are set apart from them.    *)
(***************************************************************************)
MaxLines == 4

(* "visura" *)
L_Body == <<"v", "i", "s", "u", "r", "a">>

(* "- visura" *)
L_Bullet == <<"-", " ", "v", "i", "s", "u", "r", "a">>

(* "1. visura" *)
L_Number == <<"1", ".", " ", "v", "i", "s", "u", "r", "a">>

(* the lines of the documents: a heading, body text, a bullet-marked and a *)
(* number-marked line, the empty line                                      *)
RawLines == {K_Scadenza, L_Body, L_Bullet, L_Number, EmptyStr}

(* the texts extract_text gives: up to MaxLines lines; a text whose first *)
(* line is empty begins with a line break                                 *)
RawTexts == {JoinLines(ls) : ls \in SeqsUpTo(RawLines, MaxLines)}

DocInit ==
  /\ tpc = "extract"
  /\ raw_pdf_text \in RawTexts
  /\ norm_pdf_text = <<>>
  /\ pdf_content = EmptyDict
  /\ CoreIdle
  /\ CatIdle
  /\ PoolIdle
  /\ RetryIdle
  /\ MainIdle
  /\ GrantIdle
  /\ UtilIdle
  /\ ExtractIdle
  /\ UpdateIdle
  /\ RunIdle

(* the characters of [A-Za-z0-9\s\-,] *)
HeadingClass ==
  {UpperChars[k] : k \in 1..26} \cup {LowerChars[k] : k \in 1..26} \cup Digits
    \cup Whitespace \cup {"-", ","}

(* line 134, a match of section_pattern that begins at the line break i:  *)
(* the positions where the group can end, a line break or a mark and a    *)
(* line break next                                                        *)
SectionEnds(s, i) ==
  LET past == SkipChars(s, i + 1, HeadingClass)
  IN  {k \in DOMAIN s :
         /\ i < k /\ k < past
         /\ \/ k + 1 <= Len(s) /\ s[k + 1] = "\n"
            \/ k + 2 <= Len(s) /\ s[k + 1] \in {".", ":"} /\ s[k + 2] = "\n"}

(* line 135: section_pattern.findall(pdf_text) from position i on; the  *)
(* group is as long as it can be and the next match is looked for after *)
(* the line break that ends this one                                    *)
RECURSIVE SectionMatches(_, _)
SectionMatches(s, i) ==
  LET m == NextMatch(s, i, LAMBDA p :
             /\ p < Len(s)
             /\ s[p] = "\n"
             /\ s[p + 1] \in {UpperChars[k] : k \in 1..26}
             /\ SectionEnds(s, p) # {})
      k == SetMax(SectionEnds(s, m))
      e == IF s[k + 1] = "\n" THEN k + 1 ELSE k + 2
  IN  IF m = 0 THEN <<>>
      ELSE <<SubSeq(s, m + 1, k)>> \o SectionMatches(s, e + 1)

(* s.find(t, start), 1-based: the first position from start on where t *)
(* begins, 0 if there is none                                          *)
FindFrom(s, t, start) ==
  LET at == {i \in start..(Len(s) - Len(t) + 1) : SubSeq(s, i, i + Len(t) - 1) = t}
  IN  IF at = {} THEN 0 ELSE SetMin(at)

(* lines 137-157: one match of section_pattern *)
WithSection(sections, s, section) ==
  LET section_title == Strip(section)
      start_idx == FindFrom(s, section, 1)
      end_idx == FindFrom(s, S_Newline, start_idx + Len(section))
      next_section_idx == FindFrom(s, S_Newline, end_idx + 1)
      section_content ==
        Strip(SubSeq(s, end_idx, IF next_section_idx = 0 THEN Len(s) ELSE next_section_idx - 1))
  IN  IF Len(section_title) < 3 \/ Len(section_title) > 100 THEN sections
      ELSE IF start_idx = 0 \/ end_idx = 0 THEN sections
      ELSE IF Len(section_content) > 0
      THEN DictPut(sections, section_title, clean_text(section_content))
      ELSE sections

(* lines 137-157: for section in sections *)
RECURSIVE WithSections(_, _, _)
WithSections(sections, s, matches) ==
  IF Len(matches) = 0 THEN sections
  ELSE AndThen(WithSection(sections, s, matches[1]),
               LAMBDA s1 : WithSections(s1, s, Tail(matches)))

(* lines 161-162: the position after a list marker that begins at p, 0 if *)
(* none does: [•\-\*] in the bullet pattern, \d+[\.\)] in the other       *)
MarkerEnd(s, p, numbered) ==
  LET d == SkipChars(s, p, Digits)
  IN  IF numbered
      THEN IF d > p /\ d <= Len(s) /\ s[d] \in {".", ")"} THEN d + 1 ELSE 0
      ELSE IF p <= Len(s) /\ s[p] \in {"BULLET", "-", "*"} THEN p + 1 ELSE 0

(* the last position of the line that holds position q *)
LineEnd(s, q) ==
  LET breaks == {j \in q..Len(s) : s[j] = "\n"}
  IN  IF breaks = {} THEN Len(s) ELSE SetMin(breaks) - 1

(* one half of a list pattern at the line break i (the line break, white *)
(* space, the marker, white space, the group [^\n]+): where the group     *)
(* begins, 0 if there is no match; the item is on the line of its marker  *)
ItemStart(s, i, numbered) ==
  LET m == MarkerEnd(s, SkipChars(s, i + 1, Whitespace), numbered)
      q == SkipChars(s, m, Whitespace)
  IN  IF i <= Len(s) /\ s[i] = "\n" /\ m > 0 /\ q <= Len(s) THEN q ELSE 0

(* line 168: re.findall(pattern, pdf_text) from position i on, the two *)
(* groups of each match one after the other                            *)
RECURSIVE ListMatches(_, _, _)
ListMatches(s, i, numbered) ==
  LET m == NextMatch(s, i, LAMBDA p :
             /\ p < Len(s)
             /\ ItemStart(s, p, numbered) > 0
             /\ ItemStart(s, LineEnd(s, ItemStart(s, p, numbered)) + 1, numbered) > 0)
      q1 == ItemStart(s, m, numbered)
      e1 == LineEnd(s, q1)
      q2 == ItemStart(s, e1 + 1, numbered)
      e2 == LineEnd(s, q2)
  IN  IF m = 0 THEN <<>>
      ELSE <<SubSeq(s, q1, e1), SubSeq(s, q2, e2)>> \o ListMatches(s, e2 + 1, numbered)

(* lines 170-172: the cleaned items that are not empty, appended if any *)
WithList(lists, s, numbered) ==
  LET matches == ListMatches(s, 1, numbered)
      cleaned == [j \in DOMAIN matches |-> clean_text(matches[j])]
      list_items == SelectSeq(cleaned, LAMBDA item : Len(item) > 0)
  IN  IF Len(list_items) > 0 THEN Append(lists, list_items) ELSE lists

(* lines 121-172 of process_pdf_content: 'sections' and 'lists' of result *)
process_pdf_content(s) ==
  [sections |-> WithSections(<<>>, s, SectionMatches(s, 1)),
   lists |-> WithList(WithList(<<>>, s, FALSE), s, TRUE)]

(* lines 96-104: None for no text, and the normalized text otherwise *)
extract_text_from_pdf(text) == IF Len(text) = 0 THEN NoneStr ELSE normalize_whitespace(text)

(* pdf_processor.py lines 224-227: pdf_text = extract_text_from_pdf(...); *)
(* if not pdf_text: return {}                                             *)
ExtractPdfText ==
  /\ tpc = "extract"
  /\ norm_pdf_text' = extract_text_from_pdf(raw_pdf_text)
  /\ tpc' = IF Truthy(norm_pdf_text') THEN "content" ELSE "returned"
  /\ UNCHANGED <<raw_pdf_text, pdf_content>>
  /\ UNCHANGED <<core_vars, cat_vars, pool_vars, retry_vars, main_vars, grant_vars, util_vars, extract_vars, update_vars, run_vars>>

(* lines 229-237: result = process_pdf_content(pdf_text, context); return *)
ProcessContent ==
  /\ tpc = "content"
  /\ pdf_content' = process_pdf_content(norm_pdf_text)
  /\ tpc' = "returned"
  /\ UNCHANGED <<raw_pdf_text, norm_pdf_text>>
  /\ UNCHANGED <<core_vars, cat_vars, pool_vars, retry_vars, main_vars, grant_vars, util_vars, extract_vars, update_vars, run_vars>>

DocNext == ExtractPdfText \/ ProcessContent

DocSpec == DocInit /\ [][DocNext]_vars

(* line j of the text is a heading line with body text on the next line *)
HeadingWithBody(lines, j) ==
  /\ j + 1 <= Len(lines)
  /\ Len(lines[j]) >= 3
  /\ lines[j][1] \in {UpperChars[k] : k \in 1..26}
  /\ \A i \in DOMAIN lines[j] : lines[j][i] \in HeadingClass
  /\ Len(Strip(lines[j + 1])) > 0
  /\ MarkerEnd(lines[j + 1], 1, FALSE) = 0
  /\ MarkerEnd(lines[j + 1], 1, TRUE) = 0

(* lines j and j + 1 of the text are marked the same way *)
TwoMarkedLines(lines, j) ==
  /\ j + 1 <= Len(lines)
  /\ \E numbered \in BOOLEAN :
       MarkerEnd(lines[j], 1, numbered) > 0 /\ MarkerEnd(lines[j + 1], 1, numbered) > 0

(***************************************************************************)
(* C28.  When the raw text of the PDF has a heading line followed by body  *)
(* text on the next line, the record process_pdf returns has the heading   *)
(* as a key of 'sections'; when it has two consecutive bullet-marked or    *)
(* number-marked lines, the record has a non-empty 'lists'.                *)
(***************************************************************************)
C28_SectionsAndListsFound ==
  tpc = "returned"
    => \A lines \in {SplitLines(raw_pdf_text, 1)} :
         \A j \in DOMAIN lines :
           /\ HeadingWithBody(lines, j)
                => /\ pdf_content # EmptyDict
                   /\ DictHas(pdf_content.sections, Strip(lines[j]))
           /\ TwoMarkedLines(lines, j)
                => /\ pdf_content # EmptyDict
                   /\ Len(pdf_content.lists) > 0

(* process_pdf returned the record of a text in which a heading line is *)
(* followed by body text and, further on, by two lines marked the same  *)
(* way                                                                  *)
C28_WitnessHeadingAndList ==
  /\ tpc = "returned"
  /\ pdf_content # EmptyDict
  /\ \E lines \in {SplitLines(raw_pdf_text, 1)} :
       /\ \E j \in DOMAIN lines : HeadingWithBody(lines, j)
       /\ \E j \in DOMAIN lines : TwoMarkedLines(lines, j)

(* the headings of the categories, as generate_summary writes them *)
CategoryHeadings ==
  {HeadingText(S_DocumentazioneRichiesta), HeadingText(S_Requisiti),
   HeadingText(S_BeneficiariAmmissibili), HeadingText(S_Finanziamento),
   HeadingText(S_Scadenze)}

(* a bullet line: "- " and the item *)
IsBullet(line) == Len(line) >= 2 /\ line[1] = "-" /\ line[2] = " "

(***************************************************************************)
(* C29.  In the document generate_summary produces, every category heading *)
(* and every list heading is followed by at least one bullet line: the     *)
(* line after the heading is a bullet line.                                *)
(***************************************************************************)
C29_HeadingHasBullet ==
  (pc = "done" /\ merged_data # EmptyDict)
    => \A lines \in {SplitLines(documentation_summary, 1)} :
         \A j \in DOMAIN lines :
           (\/ lines[j] \in CategoryHeadings
            \/ InSeq(lines[j], ListHeadings(merged_data.lists)))
             => j + 1 <= Len(lines) /\ IsBullet(lines[j + 1])

(* a document was produced from a record with more than ten documentation *)
(* items, or a list of more than five items, all under 15 characters      *)
C29_WitnessManyShortItems ==
  /\ pc = "done"
  /\ merged_data # EmptyDict
  /\ \/ /\ Len(merged_data.documentation) > CategoryMaxItems
        /\ \A i \in DOMAIN merged_data.documentation : Len(merged_data.documentation[i]) < 15
     \/ \E l \in DOMAIN merged_data.lists :
          /\ Len(merged_data.lists[l].v) > ListMaxItems
          /\ \A i \in DOMAIN merged_data.lists[l].v : Len(merged_data.lists[l].v[i]) < 15

(***************************************************************************)
(* main from the command line to the submission of the grants (main.py     *)
(* lines 141-193).  DatabaseManager (db_manager.py lines 14-156) defines   *)
(* get_active_grants, check_grant_exists, update_documentation and close:  *)
(* it has no get_all_grants, so the call of line 162 raises AttributeError, *)
(* which the handler of line 222 logs before main ends.                    *)
(***************************************************************************)
(* the values of the stato column *)
Stati == {"Attivo", "Chiuso"}

(* the command lines: --all-grants, --batch-size, --verify-only *)
Args == [all_grants : BOOLEAN, batch_size : 0..NumGrants, verify_only : BOOLEAN]

RunInit ==
  /\ rpc = "start"
  /\ args \in Args
  /\ bandi \in SeqsUpTo(Stati, NumGrants)
  /\ grants = <<>>
  /\ submitted = <<>>
  /\ CoreIdle
  /\ CatIdle
  /\ PoolIdle
  /\ RetryIdle
  /\ MainIdle
  /\ GrantIdle
  /\ UtilIdle
  /\ ExtractIdle
  /\ UpdateIdle
  /\ DocIdle

(* the ids of the rows, a grant being named by the position of its row *)
AllGrants == [i \in DOMAIN bandi |-> i]

(* db_manager.py lines 40-49: the rows whose stato is "Attivo" *)
get_active_grants == SelectSeq(AllGrants, LAMBDA g : bandi[g] = "Attivo")

(* main.py lines 161-172 and 222-223: the grants are fetched; the call of *)
(* a method the object does not have raises, get_active_grants raises     *)
(* when its last attempt does, and main returns when there is no grant    *)
GetGrants ==
  /\ rpc = "start"
  /\ IF args.all_grants
       THEN rpc' = "finished" /\ UNCHANGED grants
       ELSE \E raises \in BOOLEAN :
              IF raises
              THEN rpc' = "finished" /\ UNCHANGED grants
              ELSE /\ grants' = get_active_grants
                   /\ rpc' = IF Len(grants') = 0 THEN "finished" ELSE "batch"
  /\ UNCHANGED <<args, bandi, submitted>>
  /\ UNCHANGED <<core_vars, cat_vars, pool_vars, retry_vars, main_vars, grant_vars, util_vars, extract_vars, update_vars, doc_vars>>

(* grants[:batch_size] when the batch size is positive and under len(grants) *)
Batch(gs, batch_size) ==
  IF batch_size > 0 /\ batch_size < Len(gs) THEN SubSeq(gs, 1, batch_size) ELSE gs

(* lines 174-177 *)
ApplyBatchSize ==
  /\ rpc = "batch"
  /\ grants' = Batch(grants, args.batch_size)
  /\ rpc' = IF args.verify_only THEN "verify" ELSE "submit"
  /\ UNCHANGED <<args, bandi, submitted>>
  /\ UNCHANGED <<core_vars, cat_vars, pool_vars, retry_vars, main_vars, grant_vars, util_vars, extract_vars, update_vars, doc_vars>>

(* lines 180-187: the grants are checked and main returns *)
VerifyOnly ==
  /\ rpc = "verify"
  /\ rpc' = "finished"
  /\ UNCHANGED <<args, bandi, grants, submitted>>
  /\ UNCHANGED <<core_vars, cat_vars, pool_vars, retry_vars, main_vars, grant_vars, util_vars, extract_vars, update_vars, doc_vars>>

(* line 193: executor.submit(process_grant, grant) for grant in grants *)
SubmitGrants ==
  /\ rpc = "submit"
  /\ submitted' = grants
  /\ rpc' = "submitted"
  /\ UNCHANGED <<args, bandi, grants>>
  /\ UNCHANGED <<core_vars, cat_vars, pool_vars, retry_vars, main_vars, grant_vars, util_vars, extract_vars, update_vars, doc_vars>>

RunNext == GetGrants \/ ApplyBatchSize \/ VerifyOnly \/ SubmitGrants

RunSpec == RunInit /\ [][RunNext]_vars

(***************************************************************************)
(* C30.  When main is run with --all-grants (and without --verify-only),   *)
(* every grant of the table, whatever its stato, up to --batch-size when   *)
(* it is positive, is submitted to process_grant: main does not end before *)
(* it has submitted them.                                                  *)
(***************************************************************************)
C30_AllGrantsSubmitted ==
  (args # EmptyDict /\ args.all_grants /\ ~ args.verify_only /\ rpc \in {"submitted", "finished"})
    => submitted = Batch(AllGrants, args.batch_size)

(* main ended after it was run with --all-grants on a table that holds a *)
(* grant that is not active                                              *)
C30_WitnessAllGrantsRun ==
  /\ rpc = "finished"
  /\ args.all_grants
  /\ ~ args.verify_only
  /\ \E g \in DOMAIN bandi : bandi[g] # "Attivo"

(***************************************************************************)
(* One helper applied once to one input (clean_text: twice in a row)       *)
(***************************************************************************)
UtilInit ==
  /\ UtilIdleArgs
  /\ \/ SelectInit
     \/ TruncateInit
     \/ NormalizeInit
     \/ CleanInit

UtilNext ==
  \/ ApplySelect
  \/ ApplyTruncate
  \/ ApplyNormalize
  \/ ApplyClean
  \/ ApplyCleanAgain

UtilSpec == UtilInit /\ [][UtilNext]_vars

=============================================================================
